---------------------------- MODULE Spec2Model ----------------------------
(***************************************************************************)
(* Model of ui/effects/spoiler_mess.cpp (lib_ui): the serialization codec  *)
(* of SpoilerMessCached, the disk cache of the default mask and the        *)
(* process-wide default mask that a crl::async task publishes and that     *)
(* DefaultSpoilerMask readers wait for.                                    *)
(*                                                                         *)
(* An image is kept as its dimensions, the pixels of a prefix of its       *)
(* row-major pixel order (dots) and the value of every other pixel (fill): *)
(* the codec works pixel by pixel, so this keeps a 1000x600 atlas small.   *)
(* A pixel of a Format_ARGB32_Premultiplied image is its four bytes in     *)
(* memory order; a pixel of a Format_Grayscale8 image is one byte.         *)
(***************************************************************************)
EXTENDS Integers, Sequences, FiniteSets, TLC

\* ------------------------------------------------------------- bounds
\* Threads that call DefaultSpoilerMask.
NumReaders == 2
\* Calls of PrepareDefaultSpoilerMess the environment may make under Spec.
MaxPrepareCalls == 2
\* Explicit pixels kept at the front of an image.
MaxDots == 1
\* Fuzzing steps applied to one serialized blob.
MaxCorrupt == 2
\* Particles of the short loop GenerateSpoilerMess is exercised with.
MaxParticles == 2
\* The latest crl::now() that frame() is asked at.
MaxNow == 21

\* The steps of the grid of animation values between 0. and 1.
ProgressSteps == 4

\* The most objects derived from one published mask.
MaxCopies == 2

\* The largest particleSpritesCount of a generated descriptor.
MaxSprites == 5

\* ---------------------------------------------------- program constants
kVersion == 1
kFramesPerRow == 10
kMaxCacheSize == 5 * 1024 * 1024
kDefaultFrameDuration == 33
kDefaultFramesCount == 60
kDefaultCanvasSize == 100
\* sizeof(Header): six 32-bit fields.
HeaderSize == 6 * 4
\* std::numeric_limits<int32>::max()
Int32Max == 2147483647

Min(a, b) == IF a < b THEN a ELSE b

\* ------------------------------------------------------------- images
FormatARGB32Premultiplied == "ARGB32_Premultiplied"
FormatGrayscale8 == "Grayscale8"
FormatIndexed8 == "Indexed8"

\* std::min(framesCount, kFramesPerRow)
Columns(framesCount) == Min(framesCount, kFramesPerRow)
\* Mutant: the division rounds down.
RowsRoundedDown(framesCount) == framesCount \div kFramesPerRow

\* (framesCount + kFramesPerRow - 1) / kFramesPerRow
Rows(framesCount) == (framesCount + kFramesPerRow - 1) \div kFramesPerRow

QImage(width, height, format, fill, dots) ==
    [width |-> width, height |-> height, format |-> format,
     fill |-> fill, dots |-> dots]

\* The pixel (or byte, for a grayscale image) at row-major index i, from 0.
PixelAt(image, i) ==
    IF i < Len(image.dots) THEN image.dots[i + 1] ELSE image.fill

\* Two images of the same size that agree on every pixel.
SamePixels(a, b) ==
    /\ a.width = b.width
    /\ a.height = b.height
    /\ a.format = b.format
    /\ \A i \in 0 .. (Min(a.width * a.height,
                          1 + Len(a.dots) + Len(b.dots)) - 1) :
          PixelAt(a, i) = PixelAt(b, i)

\* ------------------------------------------------ SpoilerMessCached
NoAsset == [ok |-> FALSE, aborted |-> FALSE]
AbortedAsset == [ok |-> FALSE, aborted |-> TRUE]

\* The Expects of the constructor.
ConstructorExpects(image, framesCount, frameDuration, canvasSize) ==
    /\ frameDuration > 0
    /\ framesCount > 0
    /\ canvasSize > 0
    /\ image.width = Columns(framesCount) * canvasSize
    /\ image.height = Rows(framesCount) * canvasSize

\* SpoilerMessCached(image, framesCount, frameDuration, canvasSize): the
\* object, or the abort of a failed Expects.
SpoilerMessCached(image, framesCount, frameDuration, canvasSize) ==
    IF ConstructorExpects(image, framesCount, frameDuration, canvasSize)
    THEN [ok |-> TRUE, aborted |-> FALSE, image |-> image,
          frameDuration |-> frameDuration, framesCount |-> framesCount,
          canvasSize |-> canvasSize]
    ELSE AbortedAsset

\* ------------------------------------------------- serialized bytes
\* A byte array: `head` bytes of header (HeaderSize unless the array is
\* shorter than a header), the header fields those bytes hold, the bytes
\* after the header, and `extra` further zero bytes after those.
Header(version, dataLength, dataHash, framesCount, canvasSize, frameDuration) ==
    [version |-> version, dataLength |-> dataLength, dataHash |-> dataHash,
     framesCount |-> framesCount, canvasSize |-> canvasSize,
     frameDuration |-> frameDuration]

QByteArray(head, hdr, payload, extra) ==
    [head |-> head, hdr |-> hdr, payload |-> payload, extra |-> extra]

\* QByteArray::size()
Size(data) == data.head + Len(data.payload) + data.extra

RECURSIVE WeightedSum(_, _)
WeightedSum(bytes, i) ==
    IF i = 0 THEN 0 ELSE i * bytes[i] + WeightedSum(bytes, i - 1)

\* XXH32(bytes + skip, length, 0) over the payload and its trailing zero
\* bytes: a checksum of the content and the length.
XXH32(payload, extra) ==
    (WeightedSum(payload, Len(payload)) + 31 * (Len(payload) + extra) + 17)
        % Int32Max

\* The PNG colour type of an image format.
PngColorType(format) ==
    CASE format = FormatGrayscale8 -> 0
      [] format = FormatIndexed8 -> 3
      [] OTHER -> 6

PngFormat(colorType) ==
    CASE colorType = 0 -> FormatGrayscale8
      [] colorType = 3 -> FormatIndexed8
      [] OTHER -> FormatARGB32Premultiplied

\* QImage::save(&device, "PNG"): signature, colour type, size, pixels.
PngSave(image) ==
    <<137, PngColorType(image.format), image.width, image.height,
      image.fill>> \o image.dots

NoImage == [ok |-> FALSE]

\* QImage::loadFromData(bytes, length, "PNG") of the payload and its
\* trailing zero bytes.
PngLoad(payload, extra) ==
    IF \/ Len(payload) < 5
       \/ payload[1] # 137
       \/ payload[2] \notin {0, 3, 6}
       \/ payload[3] <= 0
       \/ payload[4] <= 0
       \/ Len(payload) - 5 + extra > payload[3] * payload[4]
    THEN NoImage
    ELSE [ok |-> TRUE,
          image |-> QImage(payload[3], payload[4], PngFormat(payload[2]),
                           payload[5],
                           SubSeq(payload, 6, Len(payload))
                               \o [i \in 1 .. extra |-> 0])]

\* Mutant: the last byte of the pixel is taken instead of the first.
LastByte(pixel) == pixel[4]

\* *frombytes of a four-byte pixel: its first byte in memory.
FirstByte(pixel) == pixel[1]

\* Mutant: the last byte of the pixel is always 255.
ExpandByteOpaque(byte) == <<byte, byte, byte, 255>>

\* The bytes of the uint32 (byte << 24) | (byte << 16) | (byte << 8) | byte
ExpandByte(byte) == <<byte, byte, byte, byte>>

\* The loop of serialize() that fills the Format_Grayscale8 image.
ToGrayscale(image) ==
    QImage(image.width, image.height, FormatGrayscale8,
           FirstByte(image.fill),
           [i \in 1 .. Len(image.dots) |-> FirstByte(image.dots[i])])

\* The loop of FromSerialized() that fills the four-channel image.
FromGrayscale(grayscale) ==
    QImage(grayscale.width, grayscale.height, FormatARGB32Premultiplied,
           ExpandByte(grayscale.fill),
           [i \in 1 .. Len(grayscale.dots) |-> ExpandByte(grayscale.dots[i])])

\* SpoilerMessCached::serialize(): the bytes, or the abort of its Expects;
\* int32(_frameDuration) keeps the value, which the Expects here and in
\* the constructor hold within 1 .. Int32Max - 1.
serialize(mask) ==
    IF ~(mask.frameDuration < Int32Max)
    THEN [aborted |-> TRUE]
    ELSE LET payload == PngSave(ToGrayscale(mask.image))
         IN [aborted |-> FALSE,
             bytes |-> QByteArray(
                 HeaderSize,
                 Header(kVersion, Len(payload), XXH32(payload, 0),
                        mask.framesCount, mask.canvasSize,
                        mask.frameDuration),
                 payload, 0)]

\* std::optional<Validator>
NoValidator == [given |-> FALSE]
Validator(frameDuration, framesCount, canvasSize) ==
    [given |-> TRUE, frameDuration |-> frameDuration,
     framesCount |-> framesCount, canvasSize |-> canvasSize]

\* Mutant: the canvas size of the validator is not compared.
ValidatorRejectsNoCanvas(validator, header) ==
    /\ validator.given
    /\ \/ validator.frameDuration # header.frameDuration
       \/ validator.framesCount # header.framesCount

\* validator && (one of its three fields differs from the header's)
ValidatorRejects(validator, header) ==
    /\ validator.given
    /\ \/ validator.frameDuration # header.frameDuration
       \/ validator.framesCount # header.framesCount
       \/ validator.canvasSize # header.canvasSize

\* The tests of the header that come before the length test.
HeaderRejects(validator, header) ==
    \/ header.version # kVersion
    \/ header.canvasSize <= 0
    \/ header.framesCount <= 0
    \/ header.frameDuration <= 0
    \/ ValidatorRejects(validator, header)

\* skip + header.dataLength != length
LengthMismatch(header, length) == HeaderSize + header.dataLength # length

\* Mutant: the checksum is tested before the length.
HashBeforeLengthReadEnd(validator, header, length) ==
    IF HeaderRejects(validator, header)
    THEN HeaderSize
    ELSE HeaderSize + header.dataLength

\* Where the reads of the header tests end: XXH32 reads dataLength bytes
\* after the header, and || evaluates it only when the tests before it,
\* the length test last, are all false.
ChecksReadEnd(validator, header, length) ==
    IF HeaderRejects(validator, header) \/ LengthMismatch(header, length)
    THEN HeaderSize
    ELSE HeaderSize + header.dataLength

\* The result of FromSerialized: the optional object (or the abort of a
\* failed Expects) and the end of the bytes of `data` it read.
Decoded(mask, readEnd) == [mask |-> mask, readEnd |-> readEnd]

\* SpoilerMessCached::FromSerialized(data, validator)
FromSerialized(data, validator) ==
    LET length == Size(data)
        header == data.hdr
    IN IF length <= HeaderSize THEN Decoded(NoAsset, 0)
       ELSE IF \/ HeaderRejects(validator, header)
               \/ LengthMismatch(header, length)
               \/ XXH32(data.payload, data.extra) # header.dataHash
       THEN Decoded(NoAsset, ChecksReadEnd(validator, header, length))
       ELSE LET loaded == PngLoad(data.payload, data.extra)
            IN IF \/ ~loaded.ok
                  \/ loaded.image.format # FormatGrayscale8
               THEN Decoded(NoAsset, length)
               ELSE IF \/ loaded.image.width
                            # Columns(header.framesCount) * header.canvasSize
                       \/ loaded.image.height
                            # Rows(header.framesCount) * header.canvasSize
               THEN Decoded(NoAsset, length)
               ELSE Decoded(SpoilerMessCached(FromGrayscale(loaded.image),
                                              header.framesCount,
                                              header.frameDuration,
                                              header.canvasSize),
                            length)

\* --------------------------------------------------- mask generation
RECURSIVE SeqsUpTo(_, _)
\* The sequences over S of length at most n.
SeqsUpTo(S, n) ==
    IF n = 0 THEN {<<>>}
    ELSE LET shorter == SeqsUpTo(S, n - 1)
         IN shorter \cup {Append(q, x) : q \in shorter, x \in S}

\* What the painter may leave at the front of the atlas: white sprites on
\* a transparent image give premultiplied pixels with four equal channels.
\* Two outcomes of the random particles are kept: the first pixel left
\* transparent, or fully covered.
PaintedDots == {<<>>, <<ExpandByte(255)>>}

\* SpoilerMessDescriptor; the particle sizes are in hundredths of a pixel.
Descriptor(fadeIn, shown, fadeOut, sizeMin, sizeMax, sprites, particles, canvasSize, framesCount, frameDuration) ==
    [particleFadeInDuration |-> fadeIn, particleShownDuration |-> shown,
     particleFadeOutDuration |-> fadeOut, particleSizeMin |-> sizeMin,
     particleSizeMax |-> sizeMax, particleSpritesCount |-> sprites,
     particlesCount |-> particles, canvasSize |-> canvasSize,
     framesCount |-> framesCount, frameDuration |-> frameDuration]

\* Mutant: the Assert on the two durations is left out.
GenerateExpectsNoAssert(descriptor) ==
    /\ descriptor.framesCount > 0
    /\ descriptor.frameDuration > 0
    /\ descriptor.particlesCount > 0
    /\ descriptor.canvasSize > 0
    /\ descriptor.particleSizeMax >= descriptor.particleSizeMin
    /\ descriptor.particleSizeMin > 0

\* The Expects and the Assert of GenerateSpoilerMess.
GenerateExpects(descriptor) ==
    /\ descriptor.framesCount > 0
    /\ descriptor.frameDuration > 0
    /\ descriptor.particlesCount > 0
    /\ descriptor.canvasSize > 0
    /\ descriptor.particleSizeMax >= descriptor.particleSizeMin
    /\ descriptor.particleSizeMin > 0
    /\ descriptor.framesCount * descriptor.frameDuration
          > descriptor.particleFadeInDuration
              + descriptor.particleShownDuration
              + descriptor.particleFadeOutDuration

\* GenerateSpoilerMess(descriptor), `painted` being what the random
\* particles leave at the front of the atlas.
GenerateSpoilerMess(descriptor, painted) ==
    IF ~GenerateExpects(descriptor) THEN AbortedAsset
    ELSE LET frames == descriptor.framesCount
             size == descriptor.canvasSize
             width == size * Columns(frames)
             height == size * Rows(frames)
         IN SpoilerMessCached(
                QImage(width, height, FormatARGB32Premultiplied,
                       ExpandByte(0), painted),
                frames, descriptor.frameDuration, size)

ZeroDescriptor == Descriptor(0, 0, 0, 0, 0, 0, 0, 0, 0, 0)

\* The member a designated initializer leaves out (particleShownDuration).
OmittedMember == 0

\* Mutant: the descriptor asks for half the frames the validator names.
DefaultDescriptorHalfFrames(size) ==
    Descriptor(200, OmittedMember, 200, (150 * size) \div kDefaultCanvasSize,
               (200 * size) \div kDefaultCanvasSize, 5, 2000, size,
               kDefaultFramesCount \div 2, kDefaultFrameDuration)

\* The descriptor PrepareDefaultSpoilerMess generates with, for the canvas
\* size `size` = style::ConvertScale(kDefaultCanvasSize) * ratio; the
\* particle sizes are ConvertScaleExact(1.5) * ratio and
\* ConvertScaleExact(2.) * ratio.
DefaultDescriptor(size) ==
    Descriptor(200, OmittedMember, 200, (150 * size) \div kDefaultCanvasSize,
               (200 * size) \div kDefaultCanvasSize, 5, 2000, size,
               kDefaultFramesCount, kDefaultFrameDuration)

\* The validator PrepareDefaultSpoilerMess reads the cache with.
DefaultValidator(size) ==
    Validator(kDefaultFrameDuration, kDefaultFramesCount, size)

\* -------------------------------------------------------- cache file
NoFile == [exists |-> FALSE]
File(data) == [exists |-> TRUE, data |-> data]
ZeroHeader == Header(0, 0, 0, 0, 0, 0)
EmptyBytes == QByteArray(0, ZeroHeader, <<>>, 0)

\* Mutant: the size of the file is not tested.
ReadsAllAnySize(nonEmptyFolder, file, opens) ==
    nonEmptyFolder /\ file.exists /\ opens

\* Whether ReadDefaultMask calls file.readAll(): `nonEmptyFolder` is
\* whether the integration gives a cache folder, `opens` whether
\* QFile::open succeeds.
ReadsAll(nonEmptyFolder, file, opens) ==
    nonEmptyFolder /\ file.exists /\ opens /\ Size(file.data) <= kMaxCacheSize

\* ReadDefaultMask(validator)
ReadDefaultMask(validator, nonEmptyFolder, file, opens) ==
    IF ReadsAll(nonEmptyFolder, file, opens)
    THEN FromSerialized(file.data, validator).mask
    ELSE NoAsset

\* WriteDefaultMask(mask) with `encoded` being what mask.serialize() gives:
\* the file it leaves and whether serialize() aborted.  QDir().mkpath
\* fails for an empty folder name; QFile::open(WriteOnly) truncates the
\* file before the size of the bytes is tested.
WriteDefaultMaskBytes(encoded, nonEmptyFolder, file, mkpathOk, opens) ==
    IF ~(nonEmptyFolder /\ mkpathOk)
    THEN [aborted |-> FALSE, file |-> file, wrote |-> FALSE]
    ELSE IF encoded.aborted
    THEN [aborted |-> TRUE, file |-> file, wrote |-> FALSE]
    ELSE IF ~opens
    THEN [aborted |-> FALSE, file |-> file, wrote |-> FALSE]
    ELSE IF Size(encoded.bytes) <= kMaxCacheSize
    THEN [aborted |-> FALSE, file |-> File(encoded.bytes), wrote |-> TRUE]
    ELSE [aborted |-> FALSE, file |-> File(EmptyBytes), wrote |-> FALSE]

\* WriteDefaultMask(mask)
WriteDefaultMask(mask, nonEmptyFolder, file, mkpathOk, opens) ==
    IF ~(nonEmptyFolder /\ mkpathOk)
    THEN [aborted |-> FALSE, file |-> file, wrote |-> FALSE]
    ELSE WriteDefaultMaskBytes(serialize(mask), nonEmptyFolder, file,
                               mkpathOk, opens)

\* ------------------------------------------------------------- state
VARIABLES
    DefaultMask,        \* the atomic pointer: 0 (nullptr) or an object of heap
    DefaultMaskSignal,  \* 0 (nullptr) or the condition variable allocated
    DefaultMaskMutex,   \* 0 (nullptr) or the mutex allocated
    heap,               \* the SpoilerMessCached objects allocated with new
    mutexOwner,         \* per mutex: the thread that holds it
    task,               \* per crl::async task: its position and locals
    reader,             \* per thread calling DefaultSpoilerMask: the same
    cacheFolder,        \* whether emojiCacheFolder() is not empty
    cacheFile,          \* the file <folder>/mask
    canvas,             \* ConvertScale(kDefaultCanvasSize) * ratio
    prepareCalls,       \* calls of PrepareDefaultSpoilerMess made
    runs,               \* runs of the task body (cache load or generation)
    aborted,            \* "no", or what ended the process
    codecPc,            \* codec exercise: asset, data, decoded or aborted
    codecMask,          \* the object serialized
    codecData,          \* the bytes to decode
    codecValidator,     \* the validator given to FromSerialized
    codecResult,        \* what FromSerialized returned
    codecSteps,         \* fuzzing steps applied to codecData
    genPc,              \* GenerateSpoilerMess exercise: its position
    genDescriptor,      \* the descriptor passed
    genParticles,       \* std::vector<Particle> particles
    genSprites,         \* std::vector<QImage> sprites
    genFrame,           \* the loop's frame counter
    genX,               \* the loop's column
    genY,               \* the loop's row
    genTiles,           \* the tiles painted, with their drawImage calls
    genResult,          \* the object returned
    genQuery,           \* the last result of frame() on that object
    cacheIo,            \* cache exercise: the last file operation
    packPc,             \* channel packing exercise: its position
    packData,           \* the serialized bytes decoded
    packImage,          \* the object FromSerialized gave
    packBack,           \* the bytes serialize() gave for that object
    copyImages,         \* derived copies exercise: the pixel buffers
    copyObjects,        \* the SpoilerMessCached objects, by buffer
    copyUsed,           \* the last use made of an object
    button,             \* the members of a CallMuteButton
    animDisabled        \* anim::Disabled()

singletonVars ==
    <<DefaultMask, DefaultMaskSignal, DefaultMaskMutex, heap, mutexOwner,
      task, reader, cacheFolder, cacheFile, canvas, prepareCalls, runs,
      aborted>>
codecVars ==
    <<codecPc, codecMask, codecData, codecValidator, codecResult, codecSteps>>
genVars ==
    <<genPc, genDescriptor, genParticles, genSprites, genFrame, genX, genY,
      genTiles, genResult, genQuery>>
packVars == <<packPc, packData, packImage, packBack>>
copyVars == <<copyImages, copyObjects, copyUsed>>
\* The variables of the exercises that follow the cache's.
buttonVars == <<button, animDisabled>>
extraVars == <<packVars, copyVars, buttonVars>>
restVars == <<cacheIo, extraVars>>
vars == <<singletonVars, codecVars, genVars, restVars>>

Readers == 1 .. NumReaders
Tasks == 1 .. MaxPrepareCalls

Free == [kind |-> "none", id |-> 0]
TaskThread(t) == [kind |-> "task", id |-> t]
ReaderThread(r) == [kind |-> "reader", id |-> r]

\* The canvas sizes of the scale settings modelled: 100% and 200%.
CanvasSizes == {kDefaultCanvasSize, 2 * kDefaultCanvasSize}

\* ------------------------------------------------------ fuzzed bytes
CorruptKinds ==
    {"version", "hash", "longer", "shorter", "truncated", "padded", "huge",
     "frames", "canvas", "duration", "format", "width", "signature"}

WithHeader(data, field, value) ==
    [data EXCEPT !.hdr = [data.hdr EXCEPT ![field] = value]]

\* The bytes with their checksum field recomputed.
Rehashed(data) ==
    WithHeader(data, "dataHash", XXH32(data.payload, data.extra))

\* The payload with byte i replaced, the checksum following it.
WithPayloadByte(data, i, value) ==
    IF Len(data.payload) < i THEN data
    ELSE Rehashed([data EXCEPT !.payload = [data.payload EXCEPT ![i] = value]])

\* One change of a byte array, as a damaged or stale cache file shows it.
Corrupt(kind, data) ==
    CASE kind = "version" -> WithHeader(data, "version", data.hdr.version + 1)
      [] kind = "hash" ->
            WithHeader(data, "dataHash", (data.hdr.dataHash + 1) % Int32Max)
      [] kind = "longer" ->
            WithHeader(data, "dataLength", data.hdr.dataLength + 1)
      [] kind = "shorter" ->
            IF data.payload = <<>> THEN data
            ELSE [data EXCEPT
                    !.payload = SubSeq(data.payload, 1, Len(data.payload) - 1)]
      [] kind = "truncated" -> QByteArray(HeaderSize \div 2, data.hdr, <<>>, 0)
      [] kind = "padded" ->
            Rehashed(WithHeader([data EXCEPT !.extra = data.extra + 1],
                                "dataLength", data.hdr.dataLength + 1))
      [] kind = "huge" ->
            Rehashed(WithHeader([data EXCEPT !.extra = kMaxCacheSize],
                                "dataLength",
                                Len(data.payload) + kMaxCacheSize))
      [] kind = "frames" ->
            WithHeader(data, "framesCount", data.hdr.framesCount - 1)
      [] kind = "canvas" ->
            WithHeader(data, "canvasSize", data.hdr.canvasSize - 1)
      [] kind = "duration" ->
            WithHeader(data, "frameDuration", 0 - data.hdr.frameDuration)
      [] kind = "format" -> WithPayloadByte(data, 2, 3)
      [] kind = "width" ->
            IF Len(data.payload) < 3 THEN data
            ELSE WithPayloadByte(data, 3, data.payload[3] + 1)
      [] OTHER -> WithPayloadByte(data, 1, 0)

\* The cache files a run may start with: none, one a former run wrote
\* (with the same or another scale), and damaged ones.
StoredMasks(size) ==
    {GenerateSpoilerMess(DefaultDescriptor(size), painted) :
        painted \in PaintedDots}

\* What damages the cache files a run starts with.
FileDamages == {"hash", "huge"}

CacheFiles(size) ==
    LET good == serialize(CHOOSE m \in StoredMasks(size) : TRUE).bytes
        stale == {serialize(CHOOSE m \in StoredMasks(other) : TRUE).bytes :
                     other \in CanvasSizes \ {size}}
    IN {NoFile, File(good)} \cup {File(data) : data \in stale}
           \cup {File(Corrupt(kind, good)) : kind \in FileDamages}

NoTask == [pc |-> "none", cached |-> NoAsset, mutex |-> 0,
           notified |-> FALSE, writeCalled |-> FALSE, wrote |-> FALSE]
\* result: the pointer the last call returned, -1 before any return.
IdleReader == [pc |-> "idle", mutex |-> 0, signal |-> 0, result |-> -1]

SingletonInit ==
    /\ DefaultMask = 0
    /\ DefaultMaskSignal = 0
    /\ DefaultMaskMutex = 0
    /\ heap = <<>>
    /\ mutexOwner = [m \in Tasks |-> Free]
    /\ task = [t \in Tasks |-> NoTask]
    /\ reader = [r \in Readers |-> IdleReader]
    /\ prepareCalls = 0
    /\ runs = 0
    /\ aborted = "no"

CodecIdle ==
    /\ codecPc = "off"
    /\ codecMask = NoAsset
    /\ codecData = EmptyBytes
    /\ codecValidator = NoValidator
    /\ codecResult = Decoded(NoAsset, 0)
    /\ codecSteps = 0

\* The position of GenerateSpoilerMess: a pc, or "off" when not exercised.
NoQuery == [asked |-> FALSE]
GenIdle ==
    /\ genPc = "off"
    /\ genDescriptor = ZeroDescriptor
    /\ genParticles = <<>>
    /\ genSprites = <<>>
    /\ genFrame = 0
    /\ genX = 0
    /\ genY = 0
    /\ genTiles = <<>>
    /\ genResult = NoAsset
    /\ genQuery = NoQuery

NoIo == [op |-> "none"]
NoUse == [op |-> "none"]
PackIdle ==
    /\ packPc = "off"
    /\ packData = EmptyBytes
    /\ packImage = NoAsset
    /\ packBack = EmptyBytes
CopyIdle ==
    /\ copyImages = <<>>
    /\ copyObjects = <<>>
    /\ copyUsed = NoUse
NoButton == [type |-> "none"]
ButtonIdle == button = NoButton /\ animDisabled = FALSE
ExtraIdle == PackIdle /\ CopyIdle /\ ButtonIdle
CacheIdle == cacheIo = NoIo /\ ExtraIdle
OtherIdle == GenIdle /\ CacheIdle

Init ==
    /\ SingletonInit
    /\ canvas \in CanvasSizes
    /\ cacheFolder \in BOOLEAN
    /\ cacheFile \in (IF cacheFolder THEN CacheFiles(canvas) ELSE {NoFile})
    /\ CodecIdle
    /\ OtherIdle

\* ------------------------------------- PrepareDefaultSpoilerMess
\* Mutant: the call starts a second task as well.
SpawnTwice(tasks, t) ==
    [tasks EXCEPT ![t] = [NoTask EXCEPT !.pc = "read"],
                  ![Min(t + 1, MaxPrepareCalls)] = [NoTask EXCEPT !.pc = "read"]]

\* crl::async(lambda): the task starts at the head of the lambda.
Spawn(tasks, t) == [tasks EXCEPT ![t] = [NoTask EXCEPT !.pc = "read"]]

\* PrepareDefaultSpoilerMess(): a new condition variable, a new mutex and
\* a new task, whatever was there before.
Prepare ==
    /\ aborted = "no"
    /\ prepareCalls < MaxPrepareCalls
    /\ prepareCalls' = prepareCalls + 1
    /\ DefaultMaskSignal' = prepareCalls + 1
    /\ DefaultMaskMutex' = prepareCalls + 1
    /\ task' = Spawn(task, prepareCalls + 1)
    /\ UNCHANGED <<DefaultMask, heap, mutexOwner, reader, cacheFolder,
                   cacheFile, canvas, runs, aborted, codecVars, genVars, restVars>>

\* The call an application makes once, at its start.
PrepareOnce == prepareCalls = 0 /\ Prepare

\* ---------------------------------------------- the crl::async task
\* Mutant: the task publishes what the cache read gave, hit or miss.
PublishedCachedOnly(cached, generated) == cached

\* What the task publishes: the cached object, else a generated one.
Published(cached, generated) == IF cached.ok THEN cached ELSE generated

\* Mutant: the task writes the cache file after a hit too.
AfterNotifyAlwaysWrite(cached) == "write"

\* Where the task goes after notify_all: WriteDefaultMask if (!cached).
AfterNotify(cached) == IF cached.ok THEN "unlock" ELSE "write"

\* Mutant: notify_one(), which wakes a single waiting thread.
NotifyOne(readers, s) ==
    LET waiting == {r \in Readers :
                       readers[r].pc = "wait" /\ readers[r].signal = s}
    IN IF waiting = {} THEN readers
       ELSE LET first == CHOOSE r \in waiting : \A o \in waiting : r <= o
            IN [readers EXCEPT ![first].pc = "woken"]

\* notify_all() on condition variable s: every thread waiting on it.
NotifyAll(readers, s) ==
    [r \in Readers |->
        IF readers[r].pc = "wait" /\ readers[r].signal = s
        THEN [readers[r] EXCEPT !.pc = "woken"]
        ELSE readers[r]]

\* cached = ReadDefaultMask(validator)
TaskRead(t) ==
    /\ aborted = "no"
    /\ task[t].pc = "read"
    /\ \E opens \in BOOLEAN :
          LET cached == ReadDefaultMask(DefaultValidator(canvas), cacheFolder,
                                        cacheFile, opens)
          IN /\ task' = [task EXCEPT ![t].pc = "store", ![t].cached = cached]
             /\ aborted' = IF cached.aborted THEN "expects" ELSE "no"
    /\ runs' = runs + 1
    /\ UNCHANGED <<DefaultMask, DefaultMaskSignal, DefaultMaskMutex, heap,
                   mutexOwner, reader, cacheFolder, cacheFile, canvas,
                   prepareCalls, codecVars, genVars, restVars>>

\* DefaultMask = new SpoilerMessCached(cached or generated)
TaskStore(t) ==
    /\ aborted = "no"
    /\ task[t].pc = "store"
    /\ \E painted \in PaintedDots :
          LET object == Published(
                  task[t].cached,
                  GenerateSpoilerMess(DefaultDescriptor(canvas), painted))
          IN IF object.ok
             THEN /\ heap' = Append(heap, object)
                  /\ DefaultMask' = Len(heap) + 1
                  /\ task' = [task EXCEPT ![t].pc = "lock"]
                  /\ UNCHANGED aborted
             ELSE /\ aborted' = "expects"
                  /\ UNCHANGED <<heap, DefaultMask, task>>
    /\ UNCHANGED <<DefaultMaskSignal, DefaultMaskMutex, mutexOwner, reader,
                   cacheFolder, cacheFile, canvas, prepareCalls, runs,
                   codecVars, genVars, restVars>>

\* auto lock = std::unique_lock(*DefaultMaskMutex)
TaskLock(t) ==
    /\ aborted = "no"
    /\ task[t].pc = "lock"
    /\ mutexOwner[DefaultMaskMutex] = Free
    /\ mutexOwner' = [mutexOwner EXCEPT ![DefaultMaskMutex] = TaskThread(t)]
    /\ task' = [task EXCEPT ![t].pc = "notify", ![t].mutex = DefaultMaskMutex]
    /\ UNCHANGED <<DefaultMask, DefaultMaskSignal, DefaultMaskMutex, heap,
                   reader, cacheFolder, cacheFile, canvas, prepareCalls, runs,
                   aborted, codecVars, genVars, restVars>>

\* DefaultMaskSignal->notify_all()
TaskNotify(t) ==
    /\ aborted = "no"
    /\ task[t].pc = "notify"
    /\ reader' = NotifyAll(reader, DefaultMaskSignal)
    /\ task' = [task EXCEPT ![t].pc = AfterNotify(task[t].cached),
                            ![t].notified = TRUE]
    /\ UNCHANGED <<DefaultMask, DefaultMaskSignal, DefaultMaskMutex, heap,
                   mutexOwner, cacheFolder, cacheFile, canvas, prepareCalls,
                   runs, aborted, codecVars, genVars, restVars>>

\* WriteDefaultMask(*DefaultMask), the lock still held
TaskWrite(t) ==
    /\ aborted = "no"
    /\ task[t].pc = "write"
    /\ \E mkpathOk \in BOOLEAN, opens \in BOOLEAN :
          LET done == WriteDefaultMask(heap[DefaultMask], cacheFolder,
                                       cacheFile, mkpathOk, opens)
          IN /\ cacheFile' = done.file
             /\ aborted' = IF done.aborted THEN "expects" ELSE "no"
             /\ task' = [task EXCEPT ![t].pc = "unlock",
                                     ![t].writeCalled = TRUE,
                                     ![t].wrote = done.wrote]
    /\ UNCHANGED <<DefaultMask, DefaultMaskSignal, DefaultMaskMutex, heap,
                   mutexOwner, reader, cacheFolder, canvas, prepareCalls,
                   runs, codecVars, genVars, restVars>>

\* The end of the lambda: the lock's destructor unlocks the mutex.
TaskUnlock(t) ==
    /\ aborted = "no"
    /\ task[t].pc = "unlock"
    /\ mutexOwner' = [mutexOwner EXCEPT ![task[t].mutex] = Free]
    /\ task' = [task EXCEPT ![t].pc = "done", ![t].mutex = 0]
    /\ UNCHANGED <<DefaultMask, DefaultMaskSignal, DefaultMaskMutex, heap,
                   reader, cacheFolder, cacheFile, canvas, prepareCalls, runs,
                   aborted, codecVars, genVars, restVars>>

TaskStep(t) ==
    \/ TaskRead(t)
    \/ TaskStore(t)
    \/ TaskLock(t)
    \/ TaskNotify(t)
    \/ TaskWrite(t)
    \/ TaskUnlock(t)

\* ------------------------------------------------ DefaultSpoilerMask
\* Mutant: the pointer is returned without the test for null.
LoadedUnchecked(mask) == TRUE

\* if (const auto result = DefaultMask.load())
Loaded(mask) == mask # 0

\* Mutant: the two Asserts are left out.
AssertsSkipped(signal, mutex) == TRUE

\* Assert(DefaultMaskSignal != nullptr); Assert(DefaultMaskMutex != nullptr)
AssertsHold(signal, mutex) == signal # 0 /\ mutex # 0

\* return *result
Return(mask) == [IdleReader EXCEPT !.result = mask]

\* The call and its lock-free first load.
ReaderCall(r) ==
    /\ aborted = "no"
    /\ reader[r].pc = "idle"
    /\ reader' = [reader EXCEPT ![r] =
          IF Loaded(DefaultMask)
          THEN Return(DefaultMask)
          ELSE [reader[r] EXCEPT !.pc = "assert"]]
    /\ UNCHANGED <<DefaultMask, DefaultMaskSignal, DefaultMaskMutex, heap,
                   mutexOwner, task, cacheFolder, cacheFile, canvas,
                   prepareCalls, runs, aborted, codecVars, genVars, restVars>>

\* The two Asserts: a failed one ends the process.
ReaderAssert(r) ==
    /\ aborted = "no"
    /\ reader[r].pc = "assert"
    /\ IF AssertsHold(DefaultMaskSignal, DefaultMaskMutex)
       THEN /\ reader' = [reader EXCEPT ![r].pc = "lock"]
            /\ UNCHANGED aborted
       ELSE /\ aborted' = "assert"
            /\ UNCHANGED reader
    /\ UNCHANGED <<DefaultMask, DefaultMaskSignal, DefaultMaskMutex, heap,
                   mutexOwner, task, cacheFolder, cacheFile, canvas,
                   prepareCalls, runs, codecVars, genVars, restVars>>

\* auto lock = std::unique_lock(*DefaultMaskMutex), at the head of the loop
ReaderLock(r) ==
    /\ aborted = "no"
    /\ reader[r].pc = "lock"
    /\ DefaultMaskMutex # 0
    /\ mutexOwner[DefaultMaskMutex] = Free
    /\ mutexOwner' = [mutexOwner EXCEPT ![DefaultMaskMutex] = ReaderThread(r)]
    /\ reader' = [reader EXCEPT ![r].pc = "locked",
                                ![r].mutex = DefaultMaskMutex]
    /\ UNCHANGED <<DefaultMask, DefaultMaskSignal, DefaultMaskMutex, heap,
                   task, cacheFolder, cacheFile, canvas, prepareCalls, runs,
                   aborted, codecVars, genVars, restVars>>

\* The load under the lock: return, or DefaultMaskSignal->wait(lock), which
\* unlocks the mutex and blocks in one step.
ReaderRecheck(r) ==
    /\ aborted = "no"
    /\ reader[r].pc = "locked"
    /\ reader' = [reader EXCEPT ![r] =
          IF Loaded(DefaultMask)
          THEN Return(DefaultMask)
          ELSE [reader[r] EXCEPT !.pc = "wait", !.signal = DefaultMaskSignal]]
    /\ mutexOwner' = [mutexOwner EXCEPT ![reader[r].mutex] = Free]
    /\ UNCHANGED <<DefaultMask, DefaultMaskSignal, DefaultMaskMutex, heap,
                   task, cacheFolder, cacheFile, canvas, prepareCalls, runs,
                   aborted, codecVars, genVars, restVars>>

\* std::condition_variable::wait may wake without a notification.
ReaderSpuriousWake(r) ==
    /\ aborted = "no"
    /\ reader[r].pc = "wait"
    /\ reader' = [reader EXCEPT ![r].pc = "woken"]
    /\ UNCHANGED <<DefaultMask, DefaultMaskSignal, DefaultMaskMutex, heap,
                   mutexOwner, task, cacheFolder, cacheFile, canvas,
                   prepareCalls, runs, aborted, codecVars, genVars, restVars>>

\* wait() returns only with the mutex locked again.
ReaderReacquire(r) ==
    /\ aborted = "no"
    /\ reader[r].pc = "woken"
    /\ mutexOwner[reader[r].mutex] = Free
    /\ mutexOwner' = [mutexOwner EXCEPT ![reader[r].mutex] = ReaderThread(r)]
    /\ reader' = [reader EXCEPT ![r].pc = "endloop"]
    /\ UNCHANGED <<DefaultMask, DefaultMaskSignal, DefaultMaskMutex, heap,
                   task, cacheFolder, cacheFile, canvas, prepareCalls, runs,
                   aborted, codecVars, genVars, restVars>>

\* The end of the loop body: the lock's destructor unlocks the mutex.
ReaderEndLoop(r) ==
    /\ aborted = "no"
    /\ reader[r].pc = "endloop"
    /\ mutexOwner' = [mutexOwner EXCEPT ![reader[r].mutex] = Free]
    /\ reader' = [reader EXCEPT ![r].pc = "lock", ![r].mutex = 0,
                                ![r].signal = 0]
    /\ UNCHANGED <<DefaultMask, DefaultMaskSignal, DefaultMaskMutex, heap,
                   task, cacheFolder, cacheFile, canvas, prepareCalls, runs,
                   aborted, codecVars, genVars, restVars>>

\* The steps of a reader that is inside DefaultSpoilerMask and not waiting.
ReaderProgress(r) ==
    \/ ReaderAssert(r)
    \/ ReaderLock(r)
    \/ ReaderRecheck(r)
    \/ ReaderReacquire(r)
    \/ ReaderEndLoop(r)

ReaderStep(r) ==
    \/ ReaderCall(r)
    \/ ReaderProgress(r)
    \/ ReaderSpuriousWake(r)

\* ------------------------------------------------- codec exercise
\* The pixels of the objects serialized: transparent, opaque white, and
\* the black of alpha kImageSpoilerDarkenAlpha that DefaultImageSpoiler
\* fills with (bytes in memory order: blue, green, red, alpha).
Pixels == {<<0, 0, 0, 0>>, <<255, 255, 255, 255>>, <<0, 0, 0, 32>>}

CodecFrames == {1, kFramesPerRow + 1}
CodecCanvas == {1, 2}
CodecDurations == {1, kDefaultFrameDuration, Int32Max}

\* Every object the constructor accepts, within the sets above.
CodecMasks ==
    LET all == {SpoilerMessCached(
                    QImage(Columns(f) * c, Rows(f) * c,
                           FormatARGB32Premultiplied, fill, dots),
                    f, d, c) :
                  f \in CodecFrames, c \in CodecCanvas,
                  d \in CodecDurations, fill \in Pixels,
                  dots \in SeqsUpTo(Pixels, MaxDots)}
    IN {m \in all : Len(m.image.dots) <= m.image.width * m.image.height}

\* The validator of an object's or a header's three fields.
ValidatorOf(x) == Validator(x.frameDuration, x.framesCount, x.canvasSize)

\* The validators tried on bytes: none, the one matching the header, and
\* the ones that differ from it in one field.
CodecValidators(data) ==
    LET h == data.hdr
    IN {NoValidator, ValidatorOf(h),
        Validator(h.frameDuration + 1, h.framesCount, h.canvasSize),
        Validator(h.frameDuration, h.framesCount + 1, h.canvasSize),
        Validator(h.frameDuration, h.framesCount, h.canvasSize + 1)}

CodecInit ==
    /\ SingletonInit
    /\ canvas = kDefaultCanvasSize
    /\ cacheFolder = FALSE
    /\ cacheFile = NoFile
    /\ codecPc = "mask"
    /\ codecMask \in CodecMasks
    /\ codecData = EmptyBytes
    /\ codecValidator = NoValidator
    /\ codecResult = Decoded(NoAsset, 0)
    /\ codecSteps = 0
    /\ OtherIdle

\* codecData = codecMask.serialize()
CodecSerialize ==
    /\ codecPc = "mask"
    /\ LET encoded == serialize(codecMask)
       IN IF encoded.aborted
          THEN codecPc' = "aborted" /\ UNCHANGED codecData
          ELSE codecPc' = "data" /\ codecData' = encoded.bytes
    /\ UNCHANGED <<singletonVars, genVars, restVars, codecMask, codecValidator, codecResult,
                   codecSteps>>

\* The bytes are damaged before they are read back.
CodecCorrupt ==
    /\ codecPc = "data"
    /\ codecSteps < MaxCorrupt
    /\ \E kind \in CorruptKinds : codecData' = Corrupt(kind, codecData)
    /\ codecSteps' = codecSteps + 1
    /\ UNCHANGED <<singletonVars, genVars, restVars, codecPc, codecMask, codecValidator,
                   codecResult>>

\* codecResult = FromSerialized(codecData, validator)
CodecDecode ==
    /\ codecPc = "data"
    /\ \E validator \in CodecValidators(codecData) \cup {ValidatorOf(codecMask)} :
          /\ codecValidator' = validator
          /\ codecResult' = FromSerialized(codecData, validator)
    /\ codecPc' = "decoded"
    /\ UNCHANGED <<singletonVars, genVars, restVars, codecMask, codecData, codecSteps>>

CodecNext == CodecSerialize \/ CodecCorrupt \/ CodecDecode

\* serialize() and FromSerialized() on every object and on damaged bytes.
SpecCodec == CodecInit /\ [][CodecNext]_vars

\* --------------------------------------------------- specifications
\* The application's use: PrepareDefaultSpoilerMess is called once, and
\* DefaultSpoilerMask at any time, on any thread.
Next ==
    \/ PrepareOnce
    \/ \E t \in Tasks : TaskStep(t)
    \/ \E r \in Readers : ReaderStep(r)

Spec == Init /\ [][Next]_vars

\* The thread pool runs a started task to its end, and a thread that can
\* go on (the mutex it needs being free) does.
FairSpec ==
    /\ Spec
    /\ \A t \in Tasks : WF_vars(TaskStep(t))
    /\ \A r \in Readers : WF_vars(ReaderProgress(r))

\* Any sequence of calls of the two functions, PrepareDefaultSpoilerMess
\* more than once too; the runs start with no cache file or a good one.
NextRepeat ==
    \/ Prepare
    \/ \E t \in Tasks : TaskStep(t)
    \/ \E r \in Readers : ReaderStep(r)

InitRepeat ==
    /\ SingletonInit
    /\ canvas = kDefaultCanvasSize
    /\ cacheFolder = TRUE
    /\ cacheFile \in
          {f \in CacheFiles(canvas) :
              \/ ~f.exists
              \/ FromSerialized(f.data, DefaultValidator(canvas)).mask.ok}
    /\ CodecIdle
    /\ OtherIdle

SpecRepeat == InitRepeat /\ [][NextRepeat]_vars

\* ------------------------------------ GenerateSpoilerMess, step by step
\* 2 + int(std::ceil(descriptor.particleSizeMax)), the sizes being in
\* hundredths of a pixel.
SpriteSize(descriptor) == 2 + ((descriptor.particleSizeMax + 99) \div 100)

\* singleDuration
SingleDuration(descriptor) ==
    descriptor.particleFadeInDuration + descriptor.particleShownDuration
        + descriptor.particleFadeOutDuration

\* fullDuration
FullDuration(descriptor) == descriptor.framesCount * descriptor.frameDuration

\* The value RandomIndex(count, random) returns.  base/random.h is not
\* part of this file: for a count that is not positive the call either
\* does not return (-1) or returns some index.
RandomIndex(count) == IF count > 0 THEN 0 .. (count - 1) ELSE {-1, 0}

\* Mutant: the duration of the loop is divided before it is multiplied.
GenerateParticleDividesFirst(descriptor, index, spriteIndex, x, y) ==
    [start |-> index * ((descriptor.framesCount * descriptor.frameDuration)
                           \div descriptor.particlesCount),
     spriteIndex |-> spriteIndex, x |-> x, y |-> y]

\* GenerateParticle(descriptor, index, random), the three random indexes
\* being given.
GenerateParticle(descriptor, index, spriteIndex, x, y) ==
    [start |-> (index * descriptor.framesCount * descriptor.frameDuration)
                   \div descriptor.particlesCount,
     spriteIndex |-> spriteIndex, x |-> x, y |-> y]

\* GenerateSprite(descriptor, index, size, random): the image's size; the
\* Expects on the index holds for every index of the loop that calls it.
\* Each of `width` and `height` of the rounded rect drawn into it is the
\* fraction <<num, den>>, den being the divisor of the float64 division
\* (1 where the code does not divide).
RoundedRect(descriptor, index, size, widthSteps) ==
    LET count == descriptor.particleSpritesCount
        middle == count \div 2
        min == descriptor.particleSizeMin
        delta == descriptor.particleSizeMax - min
        width == IF index < middle
                 THEN <<min * middle + delta * widthSteps, middle>>
                 ELSE <<min, 1>>
        height == IF index > middle
                  THEN <<min * (count - 1 - middle) + delta * (index - middle),
                         count - 1 - middle>>
                  ELSE <<min, 1>>
    IN [index |-> index, size |-> size, width |-> width, height |-> height]

\* Mutant: the width rises with the index up to the middle.
GenerateSpriteRising(descriptor, index, size) ==
    RoundedRect(descriptor, index, size, index)

GenerateSprite(descriptor, index, size) ==
    RoundedRect(descriptor, index, size,
                (descriptor.particleSpritesCount \div 2) - index)

\* One p.drawImage(x, y, sprite) call, with the opacity set before it as
\* the fraction num / den and the `time` paintOneAt was called with.
Draw(particle, time, num, den, x, y) ==
    [spriteIndex |-> particle.spriteIndex, time |-> time,
     num |-> num, den |-> den, x |-> x, y |-> y]

\* Mutant: the fade-out ramp rises with the time.
OpacityFadeOutRising(descriptor, time) ==
    LET fadeIn == descriptor.particleFadeInDuration
        fadeOut == descriptor.particleFadeOutDuration
        single == SingleDuration(descriptor)
    IN IF time < fadeIn THEN <<time, fadeIn>>
       ELSE IF time > single - fadeOut
       THEN <<time - (single - fadeOut), fadeOut>>
       ELSE <<1, 1>>

\* The opacity of paintOneAt, as <<numerator, denominator>>.
Opacity(descriptor, time) ==
    LET fadeIn == descriptor.particleFadeInDuration
        fadeOut == descriptor.particleFadeOutDuration
        single == SingleDuration(descriptor)
    IN IF time < fadeIn THEN <<time, fadeIn>>
       ELSE IF time > single - fadeOut THEN <<single - time, fadeOut>>
       ELSE <<1, 1>>

\* Mutant: the copies are drawn whether the sprite overflows or not.
WrapsAlways(origin, spriteSize, size) == origin + spriteSize > 0

\* particle.x + spriteSize > size (and the same for y)
Wraps(origin, spriteSize, size) == origin + spriteSize > size

\* Mutant: a time of zero is painted too.
OutOfLifetimeOpenEnd(descriptor, time) ==
    time < 0 \/ time > SingleDuration(descriptor)

\* time <= 0 || time >= singleDuration
OutOfLifetime(descriptor, time) ==
    time <= 0 \/ time >= SingleDuration(descriptor)

\* paintOneAt(particle, time): the drawImage calls it makes, in order.
paintOneAt(descriptor, particle, time) ==
    IF OutOfLifetime(descriptor, time) THEN <<>>
    ELSE LET opacity == Opacity(descriptor, time)
             spriteSize == SpriteSize(descriptor)
             size == descriptor.canvasSize
             at(x, y) == Draw(particle, time, opacity[1], opacity[2], x, y)
             px == particle.x
             py == particle.y
         IN <<at(px, py)>> \o
            (IF Wraps(px, spriteSize, size)
             THEN <<at(px - size, py)>> \o
                  (IF Wraps(py, spriteSize, size)
                   THEN <<at(px, py - size), at(px - size, py - size)>>
                   ELSE <<>>)
             ELSE IF Wraps(py, spriteSize, size)
             THEN <<at(px, py - size)>>
             ELSE <<>>)

\* paintOne(particle, now)
paintOne(descriptor, particle, now) ==
    paintOneAt(descriptor, particle, now - particle.start)
        \o paintOneAt(descriptor, particle,
                      now + FullDuration(descriptor) - particle.start)

\* The drawImage calls of one particle in one tile, with the particle.
Painted(descriptor, particles, index, now) ==
    [index |-> index, particle |-> particles[index + 1],
     draws |-> paintOne(descriptor, particles[index + 1], now)]

\* for (auto index = 0; index != count; ++index) paintOne(...): the loop
\* ends only when index reaches count; the particles painted, in order.
PaintParticles(descriptor, particles, now) ==
    [i \in 1 .. descriptor.particlesCount |->
        Painted(descriptor, particles, i - 1, now)]

QRect(x, y, width, height) ==
    [x |-> x, y |-> y, width |-> width, height |-> height]

\* Mutant: the tile is looked up with the frames count as the row length.
frameByCount(mask, index) ==
    LET row == index \div mask.framesCount
        column == index - row * mask.framesCount
    IN [image |-> mask.image,
        source |-> QRect(column * mask.canvasSize, row * mask.canvasSize,
                         mask.canvasSize, mask.canvasSize)]

\* SpoilerMessCached::frame(index)
frame(mask, index) ==
    LET row == index \div kFramesPerRow
        column == index - row * kFramesPerRow
    IN [image |-> mask.image,
        source |-> QRect(column * mask.canvasSize, row * mask.canvasSize,
                         mask.canvasSize, mask.canvasSize)]

\* A call of frame(index), or of frame() at the time `now` (-1 for none).
Query(now, index, result) ==
    [asked |-> TRUE, now |-> now, index |-> index, result |-> result]

\* (crl::now() / _frameDuration) % _framesCount, crl::now() being the
\* time since the start of the clock, never negative.
frameIndexNow(mask, now) == (now \div mask.frameDuration) % mask.framesCount

\* The descriptors GenerateSpoilerMess is exercised with.  Valid ones:
\* a short loop with 1 .. MaxParticles particles on a canvas wider than
\* the sprite, an 11-frame loop whose duration is no multiple of its 3
\* particles on a canvas narrower than the sprite, and loops of 1, 10
\* and 20 frames.
ValidDescriptors ==
    {Descriptor(2, 1, 2, 150, 200, 1, n, 4, 3, 2) : n \in 1 .. MaxParticles}
        \cup {Descriptor(3, 2, 3, 100, 100, 2, 3, 2, kFramesPerRow + 1, 1),
              Descriptor(2, 2, 2, 150, 200, 1, 1, 1, 1, 7),
              Descriptor(2, 1, 2, 150, 200, 1, 1, 1, kFramesPerRow, 1),
              Descriptor(2, 1, 2, 150, 200, 1, 1, 1, 2 * kFramesPerRow, 1)}
        \cup {Descriptor(2, 1, 2, 150, 200, sprites, 1, 1, 1, 7) :
                 sprites \in 3 .. MaxSprites}

\* The descriptor with one member replaced.
With(descriptor, member, value) == [descriptor EXCEPT ![member] = value]

\* The members of a descriptor that must be positive for the spec.
PositiveMembers ==
    {"framesCount", "particlesCount", "particleSpritesCount",
     "frameDuration", "particleFadeInDuration", "particleShownDuration",
     "particleFadeOutDuration", "canvasSize", "particleSizeMin"}

\* Descriptors that break one invariant of the spec: a member that is
\* zero or negative, a maximal size under the minimal one, a loop no
\* longer than the lifetime of a particle.
InvalidDescriptors ==
    LET base == Descriptor(2, 1, 2, 150, 200, 1, 1, 4, 3, 2)
    IN {With(base, member, value) :
            member \in PositiveMembers, value \in {0, -1}}
         \cup {With(base, "particleSizeMax", 100),
               With(base, "particleShownDuration", 2),
               With(base, "particleShownDuration", 3)}

GenDescriptors == ValidDescriptors \cup InvalidDescriptors

GenInit ==
    /\ SingletonInit
    /\ canvas = kDefaultCanvasSize
    /\ cacheFolder = FALSE
    /\ cacheFile = NoFile
    /\ CodecIdle
    /\ CacheIdle
    /\ genPc = "expects"
    /\ genDescriptor \in GenDescriptors
    /\ genParticles = <<>>
    /\ genSprites = <<>>
    /\ genFrame = 0
    /\ genX = 0
    /\ genY = 0
    /\ genTiles = <<>>
    /\ genResult = NoAsset
    /\ genQuery = NoQuery

notGenVars == <<singletonVars, codecVars, restVars>>

\* The Expects and the Assert at the head of GenerateSpoilerMess.
GenExpects ==
    /\ genPc = "expects"
    /\ genPc' = IF GenerateExpects(genDescriptor) THEN "particles"
                ELSE "aborted"
    /\ UNCHANGED <<notGenVars, genDescriptor, genParticles, genSprites,
                   genFrame, genX, genY, genTiles, genResult, genQuery>>

\* One round of the loop that fills `particles`.
GenParticle ==
    /\ genPc = "particles"
    /\ LET i == Len(genParticles)
       IN IF i = genDescriptor.particlesCount
          THEN genPc' = "sprites" /\ UNCHANGED genParticles
          ELSE \E spriteIndex \in
                      RandomIndex(genDescriptor.particleSpritesCount),
                  x \in RandomIndex(genDescriptor.canvasSize),
                  y \in RandomIndex(genDescriptor.canvasSize) :
                  IF spriteIndex < 0 \/ x < 0 \/ y < 0
                  THEN genPc' = "aborted" /\ UNCHANGED genParticles
                  ELSE /\ genParticles' =
                             Append(genParticles,
                                    GenerateParticle(genDescriptor, i,
                                                     spriteIndex, x, y))
                       /\ UNCHANGED genPc
    /\ UNCHANGED <<notGenVars, genDescriptor, genSprites, genFrame, genX,
                   genY, genTiles, genResult, genQuery>>

\* One round of the loop that fills `sprites`; sprites.reserve() of a
\* negative count throws std::length_error, which nothing catches.
GenSprite ==
    /\ genPc = "sprites"
    /\ LET i == Len(genSprites)
           count == genDescriptor.particleSpritesCount
       IN IF count < 0
          THEN genPc' = "aborted" /\ UNCHANGED genSprites
          ELSE IF i = count
          THEN genPc' = "paint" /\ UNCHANGED genSprites
          ELSE /\ genSprites' =
                     Append(genSprites,
                            GenerateSprite(genDescriptor, i,
                                           SpriteSize(genDescriptor)))
               /\ UNCHANGED genPc
    /\ UNCHANGED <<notGenVars, genDescriptor, genParticles, genFrame, genX,
                   genY, genTiles, genResult, genQuery>>

\* A tile of the atlas as the loop painted it.
Tile(x, y, frameIndex, rect, time, painted) ==
    [x |-> x, y |-> y, frame |-> frameIndex, rect |-> rect, time |-> time,
     painted |-> painted]

\* Mutant: the loop over the columns has no break.
BreaksNever(frameIndex, frames) == FALSE

\* if (++frame >= frames) break, `frameIndex` being the counter after ++
Breaks(frameIndex, frames) == frameIndex >= frames

\* The row the outer loop goes on with after the break of the inner one.
AfterBreak(y, rows) == y + 1

\* The body of the two loops over the tiles, for the tile (genX, genY),
\* then ++frame, the break and the loops' increments and tests.  A sprite
\* index past the end of `sprites` is a read out of the vector: the
\* process ends there or goes on.
GenPaintTile ==
    /\ genPc = "paint"
    /\ LET frames == genDescriptor.framesCount
           rows == Rows(frames)
           columns == Columns(frames)
           size == genDescriptor.canvasSize
           rect == QRect(genX * size, genY * size, size, size)
           time == genFrame * genDescriptor.frameDuration
           painted == PaintParticles(genDescriptor, genParticles, time)
           outside == \E i \in 1 .. Len(painted) :
                         /\ painted[i].draws # <<>>
                         /\ painted[i].particle.spriteIndex >= Len(genSprites)
           broke == Breaks(genFrame + 1, frames)
           nextX == IF broke \/ genX + 1 = columns THEN 0 ELSE genX + 1
           nextY == IF broke THEN AfterBreak(genY, rows)
                    ELSE IF genX + 1 = columns THEN genY + 1
                    ELSE genY
       IN \/ /\ outside
             /\ genPc' = "aborted"
             /\ UNCHANGED <<genFrame, genX, genY, genTiles>>
          \/ /\ genTiles' = Append(genTiles,
                                   Tile(genX, genY, genFrame, rect, time,
                                        painted))
             /\ genFrame' = genFrame + 1
             /\ genX' = nextX
             /\ genY' = nextY
             /\ genPc' = IF nextY = rows THEN "return" ELSE "paint"
    /\ UNCHANGED <<notGenVars, genDescriptor, genParticles, genSprites,
                   genResult, genQuery>>

\* return SpoilerMessCached(std::move(image), frames, frameDuration, size)
\* with the image of size.width x size.height the painter worked on.
GenReturn ==
    /\ genPc = "return"
    /\ \E painted \in PaintedDots :
          genResult' = GenerateSpoilerMess(genDescriptor, painted)
    /\ genPc' = IF genResult'.ok THEN "done" ELSE "aborted"
    /\ UNCHANGED <<notGenVars, genDescriptor, genParticles, genSprites,
                   genFrame, genX, genY, genTiles, genQuery>>

\* frame(index) on the object returned, for an index of a frame.  frame()
\* changes nothing, so one call on each object shows every call.
GenFrameIndex ==
    /\ genPc = "done"
    /\ ~genQuery.asked
    /\ \E index \in 0 .. (genResult.framesCount - 1) :
          genQuery' = Query(-1, index, frame(genResult, index))
    /\ UNCHANGED <<notGenVars, genPc, genDescriptor, genParticles,
                   genSprites, genFrame, genX, genY, genTiles, genResult>>

\* frame() on the object returned, at the time `now` of the clock.
GenFrameNow ==
    /\ genPc = "done"
    /\ ~genQuery.asked
    /\ \E now \in 0 .. MaxNow :
          LET index == frameIndexNow(genResult, now)
          IN genQuery' = Query(now, index, frame(genResult, index))
    /\ UNCHANGED <<notGenVars, genPc, genDescriptor, genParticles,
                   genSprites, genFrame, genX, genY, genTiles, genResult>>

GenNext ==
    \/ GenExpects
    \/ GenParticle
    \/ GenSprite
    \/ GenPaintTile
    \/ GenReturn
    \/ GenFrameIndex
    \/ GenFrameNow

\* GenerateSpoilerMess on every descriptor, then frame() on its result.
SpecGen == GenInit /\ [][GenNext]_vars

\* ------------------------------------------- the cache file's size
\* The bytes serialize() gives for an atlas whose PNG makes them `total`
\* bytes long: the PNG stand-in followed by further bytes.
OfSize(data, total) ==
    LET extra == total - HeaderSize - Len(data.payload)
    IN Rehashed(WithHeader([data EXCEPT !.extra = extra],
                           "dataLength", total - HeaderSize))

\* Sizes around the limit.
CacheSizes ==
    {kMaxCacheSize - 1, kMaxCacheSize, kMaxCacheSize + 1, 2 * kMaxCacheSize}

\* Serialized default masks, short ones and ones of the sizes above.
SizedBlobs ==
    LET short == {serialize(m).bytes : m \in StoredMasks(kDefaultCanvasSize)}
    IN short \cup {OfSize(data, total) : data \in short, total \in CacheSizes}

\* What ReadDefaultMask did: whether it read the file's contents, the
\* size of the file, whether it returned an object.
ReadIo(readAll, size, ok) ==
    [op |-> "read", readAll |-> readAll, size |-> size, ok |-> ok]

\* What WriteDefaultMask did: whether QFile::open succeeded, whether
\* file.write(bytes) was called, and the bytes.
WriteIo(opened, wrote, bytes) ==
    [op |-> "write", opened |-> opened, wrote |-> wrote, bytes |-> bytes]

CacheInit ==
    /\ SingletonInit
    /\ canvas = kDefaultCanvasSize
    /\ cacheFolder \in BOOLEAN
    /\ cacheFile \in {NoFile} \cup {File(data) : data \in SizedBlobs}
    /\ CodecIdle
    /\ GenIdle
    /\ cacheIo = NoIo
    /\ ExtraIdle

notCacheVars ==
    <<DefaultMask, DefaultMaskSignal, DefaultMaskMutex, heap, mutexOwner,
      task, reader, cacheFolder, canvas, prepareCalls, runs, aborted,
      codecVars, genVars, extraVars>>

\* ReadDefaultMask(validator) with the default validator.
CacheRead ==
    /\ \E opens \in BOOLEAN :
          cacheIo' =
              ReadIo(ReadsAll(cacheFolder, cacheFile, opens),
                     IF cacheFile.exists THEN Size(cacheFile.data) ELSE 0,
                     ReadDefaultMask(DefaultValidator(canvas), cacheFolder,
                                     cacheFile, opens).ok)
    /\ UNCHANGED <<notCacheVars, cacheFile>>

\* WriteDefaultMask(mask) for a mask that serializes to some of the bytes.
CacheWrite ==
    /\ \E bytes \in SizedBlobs, mkpathOk \in BOOLEAN, opens \in BOOLEAN :
          LET written ==
                  WriteDefaultMaskBytes([aborted |-> FALSE, bytes |-> bytes],
                                        cacheFolder, cacheFile, mkpathOk,
                                        opens)
          IN /\ cacheFile' = written.file
             /\ cacheIo' = WriteIo(cacheFolder /\ mkpathOk /\ opens,
                                   written.wrote, bytes)
    /\ UNCHANGED notCacheVars

CacheNext == CacheRead \/ CacheWrite

\* ReadDefaultMask and WriteDefaultMask on files and bytes of every size.
SpecCache == CacheInit /\ [][CacheNext]_vars

\* ------------------------------------------------- channel packing
\* The intensities of a Format_Grayscale8 image.
Intensities == 0 .. 255

\* The bytes of a cached mask of `frames` frames on a canvas of one pixel,
\* whose PNG holds the intensities `dots` and then `fill`.
PackedBytes(frames, fill, dots) ==
    LET payload == <<137, PngColorType(FormatGrayscale8), Columns(frames),
                     Rows(frames), fill>> \o dots
    IN QByteArray(HeaderSize,
                  Header(kVersion, Len(payload), XXH32(payload, 0), frames,
                         1, kDefaultFrameDuration),
                  payload, 0)

PackInit ==
    /\ SingletonInit
    /\ canvas = kDefaultCanvasSize
    /\ cacheFolder = FALSE
    /\ cacheFile = NoFile
    /\ CodecIdle
    /\ GenIdle
    /\ cacheIo = NoIo
    /\ CopyIdle
    /\ ButtonIdle
    /\ packPc = "data"
    /\ packData \in
          {PackedBytes(1, fill, <<>>) : fill \in Intensities}
              \cup {PackedBytes(2, fill, <<first>>) :
                       fill \in Intensities, first \in {0, 255}}
    /\ packImage = NoAsset
    /\ packBack = EmptyBytes

notPackVars == <<singletonVars, codecVars, genVars, cacheIo, copyVars, buttonVars>>

\* packImage = FromSerialized(packData)
PackDecode ==
    /\ packPc = "data"
    /\ packImage' = FromSerialized(packData, NoValidator).mask
    /\ packPc' = "decoded"
    /\ UNCHANGED <<notPackVars, packData, packBack>>

\* packBack = packImage.serialize()
PackEncode ==
    /\ packPc = "decoded"
    /\ packImage.ok
    /\ LET encoded == serialize(packImage)
       IN /\ ~encoded.aborted
          /\ packBack' = encoded.bytes
    /\ packPc' = "encoded"
    /\ UNCHANGED <<notPackVars, packData, packImage>>

PackNext == PackDecode \/ PackEncode

\* FromSerialized() and then serialize() on masks of every intensity.
SpecPack == PackInit /\ [][PackNext]_vars

\* ------------------------------------------------- derived variants
\* A QImage shares its pixels with its copies: copyImages holds the pixel
\* buffers, and a SpoilerMessCached of copyObjects names its buffer by
\* the index `image`. `from` is the object it was derived from (0 for the
\* published one) and `origin` the function that made it.
SharedAsset(image, framesCount, frameDuration, canvasSize, origin, from) ==
    [image |-> image, framesCount |-> framesCount,
     frameDuration |-> frameDuration, canvasSize |-> canvasSize,
     origin |-> origin, from |-> from]

\* The object with its pixels, as the const methods see it.
Resolved(images, object) ==
    SpoilerMessCached(images[object.image], object.framesCount,
                      object.frameDuration, object.canvasSize)

\* QColor(r, g, b, a) as the channels of a premultiplied pixel.
QColor(r, g, b, a) == <<(r * a) \div 255, (g * a) \div 255, (b * a) \div 255, a>>

\* style::colorizeImage(image, color): a new image whose pixels are the
\* color scaled by the first byte of the pixel of `image`.
ColorizedPixel(pixel, color) ==
    [channel \in 1 .. 4 |-> (color[channel] * (pixel[1] + 1)) \div 256]

colorizeImage(image, color) ==
    QImage(image.width, image.height, FormatARGB32Premultiplied,
           ColorizedPixel(image.fill, color),
           [i \in 1 .. Len(image.dots) |-> ColorizedPixel(image.dots[i], color)])

\* Mutant: the pixels of the mask are recolored in place and the new
\* object shares them.
RecolorInPlace(images, objects, source, color) ==
    LET mask == objects[source]
        colored == colorizeImage(images[mask.image], color)
    IN [aborted |-> FALSE,
        images |-> [images EXCEPT ![mask.image] = colored],
        objects |-> Append(objects,
                           SharedAsset(mask.image, mask.framesCount,
                                       mask.frameDuration, mask.canvasSize,
                                       "recolor", source))]

\* SpoilerMessCached(mask, color), mask being objects[source].
Recolor(images, objects, source, color) ==
    LET mask == objects[source]
        colored == colorizeImage(images[frame(mask, 0).image], color)
    IN IF ~ConstructorExpects(colored, mask.framesCount, mask.frameDuration,
                              mask.canvasSize)
       THEN [aborted |-> TRUE, images |-> images, objects |-> objects]
       ELSE [aborted |-> FALSE,
             images |-> Append(images, colored),
             objects |-> Append(objects,
                                SharedAsset(Len(images) + 1, mask.framesCount,
                                            mask.frameDuration,
                                            mask.canvasSize, "recolor",
                                            source))]

kImageSpoilerDarkenAlpha == 32

\* QPainter::drawImage of a premultiplied pixel over another one.
SourceOver(over, under) ==
    [channel \in 1 .. 4 |->
        over[channel] + (under[channel] * (255 - over[4])) \div 255]

\* The lambda of DefaultImageSpoiler(), DefaultSpoilerMask() being
\* objects[source].
ImageSpoiler(images, objects, source) ==
    LET mask == objects[source]
        atlas == images[frame(mask, 0).image]
        under == QColor(0, 0, 0, kImageSpoilerDarkenAlpha)
        image == QImage(atlas.width, atlas.height, FormatARGB32Premultiplied,
                        SourceOver(atlas.fill, under),
                        [i \in 1 .. Len(atlas.dots) |->
                            SourceOver(atlas.dots[i], under)])
    IN IF ~ConstructorExpects(image, mask.framesCount, mask.frameDuration,
                              mask.canvasSize)
       THEN [aborted |-> TRUE, images |-> images, objects |-> objects]
       ELSE [aborted |-> FALSE,
             images |-> Append(images, image),
             objects |-> Append(objects,
                                SharedAsset(Len(images) + 1, mask.framesCount,
                                            mask.frameDuration,
                                            mask.canvasSize, "darken",
                                            source))]

\* A use of an object through its const interface.
Use(op, object, result) == [op |-> op, object |-> object, result |-> result]

\* Published atlases: transparent, half or fully covered, with or without
\* a first pixel that differs.
PublishedAtlases ==
    {QImage(Columns(frames), Rows(frames), FormatARGB32Premultiplied,
            ExpandByte(fill), dots) :
        frames \in {1, 2}, fill \in {0, 128, 255}, dots \in PaintedDots}

Colors == {QColor(255, 255, 255, 255), QColor(0, 0, 0, 255), QColor(255, 0, 0, 128)}

CopyInit ==
    /\ SingletonInit
    /\ canvas = kDefaultCanvasSize
    /\ cacheFolder = FALSE
    /\ cacheFile = NoFile
    /\ CodecIdle
    /\ GenIdle
    /\ cacheIo = NoIo
    /\ PackIdle
    /\ ButtonIdle
    /\ \E atlas \in PublishedAtlases :
          /\ copyImages = <<atlas>>
          /\ copyObjects =
                <<SharedAsset(1, atlas.width * atlas.height,
                              kDefaultFrameDuration, 1, "published", 0)>>
    /\ copyUsed = NoUse

notCopyVars == <<singletonVars, codecVars, genVars, cacheIo, packVars, buttonVars>>

\* Ui::SpoilerMessCached(mask, color) on any object made so far.
CopyRecolor ==
    /\ Len(copyObjects) <= MaxCopies
    /\ \E source \in 1 .. Len(copyObjects), color \in Colors :
          LET made == Recolor(copyImages, copyObjects, source, color)
          IN /\ ~made.aborted
             /\ copyImages' = made.images
             /\ copyObjects' = made.objects
    /\ UNCHANGED <<notCopyVars, copyUsed>>

\* The first call of DefaultImageSpoiler(): the static is made once, from
\* the published mask.
CopyImageSpoiler ==
    /\ Len(copyObjects) <= MaxCopies
    /\ \A i \in 1 .. Len(copyObjects) : copyObjects[i].origin # "darken"
    /\ LET made == ImageSpoiler(copyImages, copyObjects, 1)
       IN /\ ~made.aborted
          /\ copyImages' = made.images
          /\ copyObjects' = made.objects
    /\ UNCHANGED <<notCopyVars, copyUsed>>

\* frame(index) of a derived object.
CopyFrame ==
    /\ \E object \in 2 .. Len(copyObjects) :
          \E index \in 0 .. (copyObjects[object].framesCount - 1) :
              copyUsed' = Use("frame", object,
                              frame(copyObjects[object], index))
    /\ UNCHANGED <<notCopyVars, copyImages, copyObjects>>

\* serialize() of a derived object.
CopySerialize ==
    /\ \E object \in 2 .. Len(copyObjects) :
          LET encoded == serialize(Resolved(copyImages, copyObjects[object]))
          IN /\ ~encoded.aborted
             /\ copyUsed' = Use("serialize", object, encoded.bytes)
    /\ UNCHANGED <<notCopyVars, copyImages, copyObjects>>

CopyNext == CopyRecolor \/ CopyImageSpoiler \/ CopyFrame \/ CopySerialize

\* Recolored and darkened copies of a published mask, and their use.
SpecCopy == CopyInit /\ [][CopyNext]_vars

\* --------------------------------------------------- CallMuteButton
\* A float64 of [0, 1] is kept in hundredths, on a grid of ProgressSteps
\* equal steps.
Percent == 100
Progresses == {(i * Percent) \div ProgressSteps : i \in 0 .. ProgressSteps}

kSwitchRadialDuration == 350
kSwitchCirclelDuration == 275
kBlobsScaleEnterDuration == 400
kSwitchStateFromConnectingDuration ==
    kSwitchRadialDuration + kSwitchCirclelDuration + kBlobsScaleEnterDuration

CallMuteButtonTypes == {"Active", "ForceMuted", "Connecting", "Muted"}

IsConnecting(type) == type = "Connecting"

HandleMouseStateFromType(type) ==
    CASE type \in {"Active", "Muted"} -> "Enabled"
      [] type = "Connecting" -> "Disabled"
      [] type = "ForceMuted" -> "Blocked"

\* setHandleMouseState(state); `sets` keeps the calls of one step.
setHandleMouseState(b, state) ==
    IF b.handleMouseState = state
    THEN [b EXCEPT !.sets = Append(@, state)]
    ELSE [b EXCEPT !.handleMouseState = state, !.sets = Append(@, state)]

\* (1. - value) / kRadialEndPartAnimation as the fraction <<num, den>>.
RealShowProgress(value) ==
    <<(Percent - value) * kSwitchStateFromConnectingDuration,
      Percent * kSwitchRadialDuration>>

\* The condition under which the handler makes the radial animation.
RadialMade(b, value, disabled) == value > 0 /\ ~disabled /\ ~b.radial

\* The handler of _radialInfo.rawShowProgress.value(): the outcomes of
\* one run. `uses` keeps, for each _radial-> of the run, whether _radial
\* was not null; a call through the null pointer either ends the process
\* or goes on.
RawShowProgressHandler(b, value, disabled) ==
    LET info == [b EXCEPT !.realShowProgress = RealShowProgress(value)]
    IN IF (value = 0 \/ disabled) /\ info.radial
       THEN {[info EXCEPT !.uses = Append(@, TRUE), !.radial = FALSE]}
       ELSE LET made == IF RadialMade(info, value, disabled)
                        THEN [info EXCEPT !.radial = TRUE,
                                          !.uses = Append(@, TRUE)]
                        ELSE info
            IN IF /\ made.realShowProgress[1] < made.realShowProgress[2]
                  /\ ~made.isDirectionToShow
               THEN LET restarted ==
                            [made EXCEPT !.uses = @ \o <<made.radial, made.radial>>,
                                         !.hasState = FALSE]
                    IN IF made.radial THEN {restarted}
                       ELSE {restarted, [restarted EXCEPT !.crashed = TRUE]}
               ELSE IF value = Percent
               THEN {[made EXCEPT !.hasState = FALSE]}
               ELSE IF made.radial /\ ~made.hasState
               THEN {[made EXCEPT !.hasState = TRUE,
                                  !.uses = Append(@, TRUE)]}
               ELSE {made}

\* anim::interpolateF(a, b, ratio)
interpolateF(a, b, ratio) == a + ((b - a) * ratio) \div Percent

\* Mutant: every call of the callback sets the mouse state.
ReachedToAlways(value, to) == TRUE

\* value == to, at the end of the callback.
ReachedTo(value, to) == value = to

\* The callback of the switch animation, for the `previous` and `type` it
\* has captured: the outcomes of one call.
SwitchCallback(b, value, disabled) ==
    LET fromConnecting == IsConnecting(b.previous)
        toConnecting == IsConnecting(b.switchType)
        radialShowFrom == IF fromConnecting THEN Percent ELSE 0
        radialShowTo == IF toConnecting THEN Percent ELSE 0
        radialShowProgress ==
            IF radialShowFrom = radialShowTo THEN radialShowTo
            ELSE interpolateF(radialShowFrom, radialShowTo, value)
        shown ==
            IF radialShowProgress # b.rawShowProgress
            THEN RawShowProgressHandler(
                     [b EXCEPT !.rawShowProgress = radialShowProgress],
                     radialShowProgress, disabled)
            ELSE {b}
        to == Percent
    IN {IF ~after.crashed /\ ReachedTo(value, to)
        THEN setHandleMouseState(after, b.mouseState)
        ELSE after : after \in shown}

\* The handler of the state's type.
TypeHandler(b, type) ==
    LET previous == b.previousType
        mouseState == HandleMouseStateFromType(type)
        disabled == setHandleMouseState([b EXCEPT !.previousType = type],
                                        "Disabled")
        handled == IF mouseState # "Enabled"
                   THEN setHandleMouseState(disabled, mouseState)
                   ELSE disabled
        fromConnecting == IsConnecting(previous)
        from == IF b.animating /\ ~fromConnecting THEN Percent - b.value
                ELSE 0
    IN [handled EXCEPT !.isDirectionToShow = fromConnecting,
                       !.previous = previous,
                       !.switchType = type,
                       !.mouseState = mouseState,
                       !.animating = TRUE,
                       !.value = from]

\* The button as its constructor leaves the members, before init().
Constructed(initial) ==
    [type |-> initial, previousType |-> initial,
     handleMouseState |-> "Enabled", radial |-> FALSE,
     rawShowProgress |-> 0, realShowProgress |-> <<0, 1>>,
     isDirectionToShow |-> FALSE, hasState |-> FALSE,
     animating |-> FALSE, value |-> 0, previous |-> initial,
     switchType |-> initial, mouseState |-> "Enabled",
     crashed |-> FALSE, step |-> "constructor", sets |-> <<>>,
     uses |-> <<>>]

\* What the step `name` starts from: the lists of the last step are
\* dropped.
Step(b, name) == [b EXCEPT !.step = name, !.sets = <<>>, !.uses = <<>>]

\* The button after init(): both handlers have run on the first values.
ButtonInit ==
    /\ SingletonInit
    /\ canvas = kDefaultCanvasSize
    /\ cacheFolder = FALSE
    /\ cacheFile = NoFile
    /\ CodecIdle
    /\ GenIdle
    /\ cacheIo = NoIo
    /\ PackIdle
    /\ CopyIdle
    /\ animDisabled \in BOOLEAN
    /\ \E initial \in CallMuteButtonTypes :
          \E shown \in RawShowProgressHandler(Constructed(initial), 0, animDisabled) :
              button = TypeHandler(
                           Step(setHandleMouseState(shown, "Disabled"),
                                "init"),
                           initial)

notButtonVars == <<singletonVars, codecVars, genVars, cacheIo, packVars, copyVars>>

\* setState(state)
ButtonSetState ==
    /\ ~button.crashed
    /\ \E type \in CallMuteButtonTypes :
          button' = TypeHandler([Step(button, "setState") EXCEPT !.type = type],
                                type)
    /\ UNCHANGED <<notButtonVars, animDisabled>>

\* One tick of _switchAnimation: the last one when animations are
\* disabled or the duration has passed, with the final value.
ButtonTick ==
    /\ ~button.crashed
    /\ button.animating
    /\ \E value \in Progresses :
          /\ value >= button.value
          /\ animDisabled => value = Percent
          /\ \E after \in SwitchCallback(
                              [Step(button, "tick") EXCEPT
                                  !.value = value,
                                  !.animating = value < Percent],
                              value, animDisabled) :
                button' = after
    /\ UNCHANGED <<notButtonVars, animDisabled>>

\* anim::Disables(): the setting changes.
ButtonDisables ==
    /\ ~button.crashed
    /\ animDisabled' = ~animDisabled
    /\ button' = Step(button, "disables")
    /\ UNCHANGED notButtonVars

ButtonNext == ButtonSetState \/ ButtonTick \/ ButtonDisables

\* A CallMuteButton under setState calls, animation ticks and changes of
\* the animations setting.
SpecButton == ButtonInit /\ [][ButtonNext]_vars

\* ------------------------------------------------------------ claims
SpawnedTasks == {t \in Tasks : task[t].pc # "none"}
StartedTasks == {t \in Tasks : task[t].pc \notin {"none", "read"}}

\* C1, as stated: however often PrepareDefaultSpoilerMess is called and
\* however many readers there are, the task body runs exactly once.
C1_ExactlyOneComputation == runs <= 1

\* C1, amended: every call of PrepareDefaultSpoilerMess starts one task,
\* nothing else does, and every started task runs its body once; so there
\* is one computation when the function is called once, whatever the
\* readers do.
C1_OneComputationPerPrepare ==
    /\ Cardinality(SpawnedTasks) = prepareCalls
    /\ runs = Cardinality(StartedTasks)
    /\ (prepareCalls = 1 => runs <= 1)

\* One call, its computation running, every reader blocked in the wait.
C1_Witness ==
    /\ prepareCalls = 1
    /\ runs = 1
    /\ \A r \in Readers : reader[r].pc = "wait"

C3_ReadersReturn ==
    \A r \in Readers :
        (prepareCalls > 0 /\ reader[r].pc # "idle") ~> (reader[r].pc = "idle")

\* The task has stored and notified, and every reader was in the wait.
C3_Witness ==
    /\ DefaultMask # 0
    /\ \A r \in Readers : reader[r].pc = "woken"
    /\ \E t \in Tasks : task[t].notified

\* C4, as stated: a DefaultSpoilerMask call made while nothing was
\* prepared starts the task and does not abort.
C4_FirstUseSpawns ==
    /\ aborted = "no"
    /\ (\E r \in Readers : reader[r].pc # "idle") => SpawnedTasks # {}

\* C4, amended: only PrepareDefaultSpoilerMess starts the task; a
\* DefaultSpoilerMask call whose assertions run before it was called
\* aborts, and one whose assertions run after it goes on to the lock.
C4_OnlyPrepareSpawns ==
    [][/\ SpawnedTasks' # SpawnedTasks => prepareCalls' = prepareCalls + 1
       /\ \A r \in Readers :
             reader[r].pc = "assert" /\ reader'[r].pc # "assert"
                => prepareCalls > 0 /\ reader'[r].pc = "lock"
       /\ aborted' # aborted =>
             /\ aborted' = "assert"
             /\ prepareCalls = 0
             /\ \E r \in Readers : reader[r].pc = "assert"]_vars

\* The process aborted in a call made before anything was prepared.
C4_Witness == aborted = "assert" /\ prepareCalls = 0 /\ SpawnedTasks = {}

\* C5, as stated: the task does not hold, while it writes the cache file,
\* the mutex a woken reader has to lock again.
C5_WriteOutsideLock ==
    \A t \in Tasks, r \in Readers :
        task[t].pc = "write" /\ reader[r].pc = "woken"
            => mutexOwner[reader[r].mutex] # TaskThread(t)

ValidDefault(object) ==
    /\ object.ok
    /\ object.frameDuration = kDefaultFrameDuration
    /\ object.framesCount = kDefaultFramesCount
    /\ object.canvasSize = canvas
    /\ object.image.width = kFramesPerRow * canvas
    /\ object.image.height = 6 * canvas
    /\ object.image.format = FormatARGB32Premultiplied

\* C7: whatever the cache read and the cache write do, no Expects fails,
\* a task past its store has published a valid object, and every return
\* of DefaultSpoilerMask gives a valid object.
C7_FailuresFallBack ==
    /\ aborted # "expects"
    /\ \A t \in Tasks :
          task[t].pc \in {"lock", "notify", "write", "unlock", "done"} =>
             /\ DefaultMask \in 1 .. Len(heap)
             /\ ValidDefault(heap[DefaultMask])
    /\ \A r \in Readers :
          reader[r].result # -1 =>
             /\ reader[r].result \in 1 .. Len(heap)
             /\ ValidDefault(heap[reader[r].result])

\* A damaged file was read, the write failed too (the file is still the
\* damaged one), and a reader has returned the generated object.
C7_Witness ==
    /\ cacheFile.exists
    /\ ~FromSerialized(cacheFile.data, DefaultValidator(canvas)).mask.ok
    /\ \E t \in Tasks :
          task[t].pc = "done" /\ task[t].writeCalled /\ ~task[t].wrote
    /\ \E r \in Readers : reader[r].result = DefaultMask /\ DefaultMask # 0

\* The three fields of a validator equal those of a header.
SameThree(validator, header) ==
    /\ validator.frameDuration = header.frameDuration
    /\ validator.framesCount = header.framesCount
    /\ validator.canvasSize = header.canvasSize

\* Bytes that are truncated, of another version, of a non-positive field
\* or of a wrong checksum.
Malformed(data) ==
    \/ Size(data) <= HeaderSize
    \/ data.hdr.dataLength # Size(data) - HeaderSize
    \/ data.hdr.version # kVersion
    \/ data.hdr.framesCount <= 0
    \/ data.hdr.canvasSize <= 0
    \/ data.hdr.frameDuration <= 0
    \/ data.hdr.dataHash # XXH32(data.payload, data.extra)

\* C8: FromSerialized never reads past the bytes it is given and never
\* fails an Expects, and it returns nothing for malformed bytes.
C8_MalformedRejected ==
    codecPc = "decoded" =>
       /\ codecResult.readEnd <= Size(codecData)
       /\ ~codecResult.mask.aborted
       /\ Malformed(codecData) => ~codecResult.mask.ok

\* Bytes whose header passes every test before the length test and whose
\* declared payload length is more than the bytes that follow.
C8_Witness ==
    /\ codecPc = "decoded"
    /\ Size(codecData) > HeaderSize
    /\ codecData.hdr.version = kVersion
    /\ codecData.hdr.framesCount > 0
    /\ codecData.hdr.canvasSize > 0
    /\ codecData.hdr.frameDuration > 0
    /\ ~codecValidator.given
    /\ codecData.hdr.dataLength > Size(codecData) - HeaderSize
    /\ ~codecResult.mask.ok

\* C9: bytes that decode without a validator decode with one exactly when
\* its three fields equal the header's; nothing decodes with a validator
\* that differs; without one the three fields need only be positive.
C9_ValidatorDecides ==
    codecPc = "decoded" =>
       LET plain == FromSerialized(codecData, NoValidator).mask.ok
           header == codecData.hdr
       IN /\ codecValidator.given /\ plain =>
                (codecResult.mask.ok <=> SameThree(codecValidator, header))
          /\ codecValidator.given /\ codecResult.mask.ok =>
                SameThree(codecValidator, header) /\ plain
          /\ ~codecValidator.given /\ codecResult.mask.ok =>
                /\ header.frameDuration > 0
                /\ header.framesCount > 0
                /\ header.canvasSize > 0

\* Well-formed bytes rejected by a validator that differs from the header
\* in the canvas size alone.
C9_Witness ==
    /\ codecPc = "decoded"
    /\ codecValidator.given
    /\ FromSerialized(codecData, NoValidator).mask.ok
    /\ codecValidator.frameDuration = codecData.hdr.frameDuration
    /\ codecValidator.framesCount = codecData.hdr.framesCount
    /\ codecValidator.canvasSize # codecData.hdr.canvasSize
    /\ ~codecResult.mask.ok

\* The bytes of the object were decoded as serialize() gave them, with the
\* validator of the object.
RoundTrip ==
    /\ codecPc = "decoded"
    /\ codecSteps = 0
    /\ codecValidator = ValidatorOf(codecMask)

SameParameters(a, b) ==
    /\ a.framesCount = b.framesCount
    /\ a.canvasSize = b.canvasSize
    /\ a.frameDuration = b.frameDuration

\* Every pixel of the image has four equal bytes.
GrayPixels(image) ==
    \A i \in 0 .. Len(image.dots) :
        LET pixel == PixelAt(image, i)
        IN pixel[1] = pixel[2] /\ pixel[2] = pixel[3] /\ pixel[3] = pixel[4]

\* C10, as stated: for every object the constructor accepts, serialize()
\* succeeds and decoding its bytes with the matching validator gives the
\* same parameters and the same pixels.
C10_RoundTripIdentical ==
    /\ codecPc # "aborted"
    /\ RoundTrip =>
          /\ codecResult.mask.ok
          /\ SameParameters(codecResult.mask, codecMask)
          /\ SamePixels(codecResult.mask.image, codecMask.image)

\* C10, amended: serialize() aborts only for a frame duration of
\* Int32Max or more; otherwise the round trip succeeds with the same
\* parameters and the same atlas size, every pixel of the result has its
\* four bytes equal to the first byte of the original pixel, and so the
\* atlas is the same when every original pixel has four equal bytes.
C10_RoundTripFirstByte ==
    /\ codecPc = "aborted" => codecMask.frameDuration >= Int32Max
    /\ codecPc # "aborted" /\ codecPc # "mask" =>
          codecMask.frameDuration < Int32Max
    /\ RoundTrip =>
          /\ codecResult.mask.ok
          /\ SameParameters(codecResult.mask, codecMask)
          /\ codecResult.mask.image.width = codecMask.image.width
          /\ codecResult.mask.image.height = codecMask.image.height
          /\ \A i \in 0 .. Len(codecMask.image.dots) :
                LET byte == PixelAt(codecMask.image, i)[1]
                IN PixelAt(codecResult.mask.image, i)
                      = <<byte, byte, byte, byte>>
          /\ GrayPixels(codecMask.image) =>
                SamePixels(codecResult.mask.image, codecMask.image)

\* A round trip of a two-row atlas with an opaque white first pixel on a
\* transparent ground, which comes back the same.
C10_Witness ==
    /\ RoundTrip
    /\ codecMask.framesCount > kFramesPerRow
    /\ codecMask.image.fill = <<0, 0, 0, 0>>
    /\ codecMask.image.dots = <<(<<255, 255, 255, 255>>)>>
    /\ codecResult.mask.ok
    /\ SamePixels(codecResult.mask.image, codecMask.image)

\* The invariants of a descriptor that GenerateSpoilerMess is said to
\* enforce: every count, duration and size positive, the maximal size not
\* under the minimal one, the loop longer than a particle's lifetime.
SaidInvariants(d) ==
    /\ \A member \in PositiveMembers : d[member] > 0
    /\ ~(d.particleSizeMax < d.particleSizeMin)
    /\ ~(d.framesCount * d.frameDuration
            <= d.particleFadeInDuration + d.particleShownDuration
                 + d.particleFadeOutDuration)

\* The members whose sign GenerateSpoilerMess tests.
TestedMembers ==
    {"framesCount", "frameDuration", "particlesCount", "canvasSize",
     "particleSizeMin"}

TestedInvariants(d) ==
    /\ \A member \in TestedMembers : d[member] > 0
    /\ ~(d.particleSizeMax < d.particleSizeMin)
    /\ ~(d.framesCount * d.frameDuration
            <= d.particleFadeInDuration + d.particleShownDuration
                 + d.particleFadeOutDuration)

\* Nothing of the generation has happened.
NothingGenerated ==
    genParticles = <<>> /\ genSprites = <<>> /\ genTiles = <<>>

\* C11, as stated: a descriptor that breaks any of the said invariants
\* never passes the validation: the call is at its head or has aborted
\* with nothing generated.
C11_EveryInvariantEnforced ==
    ~SaidInvariants(genDescriptor) =>
        genPc \in {"off", "expects", "aborted"} /\ NothingGenerated

\* C11, amended: a descriptor that breaks an invariant on the frames
\* count, the frame duration, the particles count, the canvas size, the
\* minimal size, the order of the two sizes or the length of the loop
\* aborts before anything is generated; one that breaks only the sign of
\* a fade-in, shown or fade-out duration or of the sprites count passes
\* the validation, and with a positive sprites count the call returns.
C11_TestedInvariantsEnforced ==
    /\ ~TestedInvariants(genDescriptor) =>
          genPc \in {"off", "expects", "aborted"} /\ NothingGenerated
    /\ (TestedInvariants(genDescriptor) /\ genPc \notin {"off", "expects"}) =>
          \/ genPc # "aborted"
          \/ genDescriptor.particleSpritesCount <= 0

\* A descriptor whose loop is exactly as long as a particle's lifetime,
\* every member being positive, has aborted with nothing generated.
C11_Witness ==
    /\ genPc = "aborted"
    /\ NothingGenerated
    /\ \A member \in PositiveMembers : genDescriptor[member] > 0
    /\ FullDuration(genDescriptor) = SingleDuration(genDescriptor)

\* ceil(frames / 10): the least number of rows of ten that hold the frames.
CeilTenth(frames) ==
    CHOOSE r \in 0 .. frames : 10 * r >= frames /\ 10 * (r - 1) < frames

\* C12: for a descriptor that keeps every invariant the call never aborts,
\* and the object it returns has an atlas min(frames, 10) x canvasSize
\* wide and ceil(frames / 10) x canvasSize high, which is what the
\* constructor expects.
C12_GeneratedAtlasSize ==
    SaidInvariants(genDescriptor) =>
        /\ genPc # "aborted"
        /\ genPc = "done" =>
              LET frames == genDescriptor.framesCount
                  size == genDescriptor.canvasSize
              IN /\ genResult.ok
                 /\ genResult.image.width
                       = (IF frames < 10 THEN frames ELSE 10) * size
                 /\ genResult.image.height = CeilTenth(frames) * size
                 /\ ConstructorExpects(genResult.image, frames,
                                       genDescriptor.frameDuration, size)

\* A loop of 11 frames has been generated: two rows, the second not full.
C12_Witness ==
    /\ genPc = "done"
    /\ genResult.ok
    /\ SaidInvariants(genDescriptor)
    /\ genDescriptor.framesCount = kFramesPerRow + 1
    /\ Len(genTiles) = genDescriptor.framesCount

\* C13: particle i of N gets the start offset floor(i * F * D / N), F
\* being the frames count and D the frame duration: the offsets start at
\* 0, never decrease, lie in [0, F * D), and two neighbouring gaps differ
\* by one at most.
C13_StartOffsets ==
    LET n == genDescriptor.particlesCount
        full == genDescriptor.framesCount * genDescriptor.frameDuration
        start(k) == genParticles[k].start
    IN /\ Len(genParticles) <= n \/ genParticles = <<>>
       /\ \A k \in 1 .. Len(genParticles) :
             /\ start(k) * n <= (k - 1) * full
             /\ (k - 1) * full < (start(k) + 1) * n
             /\ 0 <= start(k) /\ start(k) < full
             /\ k > 1 => start(k - 1) <= start(k)
             /\ k > 2 =>
                   LET gap == start(k) - start(k - 1)
                       before == start(k - 1) - start(k - 2)
                   IN gap - before \in {-1, 0, 1}

\* Three particles over a loop of 11 time units, which 3 does not divide:
\* the offsets are 0, 3 and 7.
C13_Witness ==
    /\ Len(genParticles) = 3
    /\ genDescriptor.framesCount * genDescriptor.frameDuration = 11
    /\ genParticles[2].start = 3
    /\ genParticles[3].start = 7

\* C14: frame(index), for an index of a frame, gives the canvasSize x
\* canvasSize rectangle of the tile in column index mod columns and row
\* index div columns, columns being min(frames count, 10), and the
\* rectangle lies inside the atlas; frame() at the time `now` asks for
\* the index floor(now / frameDuration) mod frames count, which is the
\* index of a frame.
C14_FrameRectangle ==
    genQuery.asked =>
        LET frames == genResult.framesCount
            size == genResult.canvasSize
            columns == IF frames < 10 THEN frames ELSE 10
            index == genQuery.index
            source == genQuery.result.source
        IN /\ index \in 0 .. (frames - 1)
           /\ source = QRect((index % columns) * size,
                             (index \div columns) * size, size, size)
           /\ source.x >= 0
           /\ source.y >= 0
           /\ source.x + source.width <= genResult.image.width
           /\ source.y + source.height <= genResult.image.height
           /\ genQuery.now >= 0 =>
                 \E lap \in 0 .. genQuery.now :
                    LET passed == lap * frames + index
                    IN /\ passed * genResult.frameDuration <= genQuery.now
                       /\ genQuery.now < (passed + 1) * genResult.frameDuration

\* frame() was called after the clock passed the end of an 11-frame loop
\* and gave the one tile of the second row.
C14_Witness ==
    /\ genQuery.asked
    /\ genResult.framesCount = kFramesPerRow + 1
    /\ genQuery.now > genResult.framesCount * genResult.frameDuration
    /\ genQuery.index = kFramesPerRow
    /\ genQuery.result.source.y = genResult.canvasSize

\* C15: the contents of a cache file of more than 5 MiB are never read,
\* and bytes of more than 5 MiB are never written to the cache file.
C15_CacheSizeLimit ==
    /\ cacheIo.op = "read" =>
          /\ cacheIo.readAll => cacheIo.size <= 5242880
          /\ cacheIo.ok => cacheIo.readAll
    /\ cacheIo.op = "write" =>
          /\ cacheIo.wrote => Size(cacheIo.bytes) <= 5242880
          /\ cacheIo.wrote => cacheFile = File(cacheIo.bytes)
          /\ cacheIo.wrote <=> (cacheIo.opened /\ Size(cacheIo.bytes) <= 5242880)
          /\ (cacheIo.opened /\ ~cacheIo.wrote) => Size(cacheFile.data) = 0

\* Bytes one byte over the limit were given to WriteDefaultMask, the file
\* opened, and the bytes were not written.
C15_Witness ==
    /\ cacheIo.op = "write"
    /\ cacheIo.opened
    /\ Size(cacheIo.bytes) = 5242881
    /\ ~cacheIo.wrote
    /\ cacheFile.exists

\* The three fields of an object are those of the validator.
Matches(object, validator) ==
    /\ validator.given
    /\ object.frameDuration = validator.frameDuration
    /\ object.framesCount = validator.framesCount
    /\ object.canvasSize = validator.canvasSize

\* C16: the object a task published, read from the cache or generated,
\* has the frame duration, frames count and canvas size of the validator
\* the cache was read with, which are 33, 60 and the scaled canvas size;
\* and the file a task wrote is accepted, with the same three fields, by
\* a read with that validator.
C16_PublishedMatchesValidator ==
    \A t \in Tasks :
        /\ task[t].pc \in {"lock", "notify", "write", "unlock", "done"} =>
              /\ Matches(heap[DefaultMask], DefaultValidator(canvas))
              /\ heap[DefaultMask].frameDuration = 33
              /\ heap[DefaultMask].framesCount = 60
              /\ heap[DefaultMask].canvasSize = canvas
              /\ task[t].cached.ok =>
                    Matches(task[t].cached, DefaultValidator(canvas))
        /\ task[t].wrote =>
              LET later == ReadDefaultMask(DefaultValidator(canvas), TRUE,
                                           cacheFile, TRUE)
              IN later.ok /\ Matches(later, DefaultValidator(canvas))

\* At the 200% scale a task missed the cache, generated, published and
\* wrote the file.
C16_Witness ==
    \E t \in Tasks :
        /\ task[t].pc = "done"
        /\ ~task[t].cached.ok
        /\ task[t].wrote
        /\ canvas = 2 * kDefaultCanvasSize
        /\ heap[DefaultMask].canvasSize = canvas

\* C17: the loops paint the frames 0, 1, 2, ... in this order, one tile
\* each: frame f into the tile of column f mod columns and row
\* f div columns, at the sample time f x frameDuration; no tile is painted
\* for an index of F or more, and when the loops end exactly F tiles have
\* been painted.
C17_OneTilePerFrame ==
    LET frames == genDescriptor.framesCount
        size == genDescriptor.canvasSize
        columns == IF frames < 10 THEN frames ELSE 10
    IN /\ \A k \in 1 .. Len(genTiles) :
             LET f == k - 1
                 tile == genTiles[k]
             IN /\ tile.frame = f
                /\ f < frames
                /\ tile.x = f % columns
                /\ tile.y = f \div columns
                /\ tile.rect = QRect(tile.x * size, tile.y * size, size, size)
                /\ tile.time = f * genDescriptor.frameDuration
       /\ genPc \in {"return", "done"} => Len(genTiles) = frames

\* The loops have ended on an 11-frame descriptor: ten tiles in the first
\* row, one in the second.
C17_Witness ==
    /\ genPc = "return"
    /\ Len(genTiles) = kFramesPerRow + 1
    /\ genTiles[kFramesPerRow + 1].y = 1
    /\ genTiles[kFramesPerRow + 1].x = 0

\* The particles painted in the tiles, each with its tile.
PaintedInTiles ==
    {<<k, i>> : k \in 1 .. Len(genTiles), i \in 1 .. Len(genParticles)}

\* The two phases of a particle in a tile: t - s and t + fullDuration - s.
Phase(k, i) == genTiles[k].time - genParticles[i].start
WrappedPhase(k, i) == Phase(k, i) + FullDuration(genDescriptor)

\* The drawImage calls made for particle i in tile k.
DrawsOf(k, i) == genTiles[k].painted[i].draws

\* C18, as stated: of the two phases of a particle in a frame at most one
\* lies in [0, singleLifetime), the particle is drawn in the frame exactly
\* when one does, and every draw of it is at that phase.
C18_RenderedFromPhaseZero ==
    SaidInvariants(genDescriptor) =>
        \A pair \in PaintedInTiles :
            LET k == pair[1]
                i == pair[2]
                single == SingleDuration(genDescriptor)
                in(d) == 0 <= d /\ d < single
            IN /\ ~(in(Phase(k, i)) /\ in(WrappedPhase(k, i)))
               /\ DrawsOf(k, i) # <<>>
                     <=> (in(Phase(k, i)) \/ in(WrappedPhase(k, i)))
               /\ \A n \in 1 .. Len(DrawsOf(k, i)) :
                     /\ in(DrawsOf(k, i)[n].time)
                     /\ DrawsOf(k, i)[n].time
                           \in {Phase(k, i), WrappedPhase(k, i)}

\* C18, amended: at most one of the two phases lies in the lifetime, the
\* particle is drawn in the frame exactly when one of them lies strictly
\* between 0 and singleLifetime, and every draw of it is at that phase; at
\* the phase 0 nothing is drawn.
C18_RenderedAfterPhaseZero ==
    \A pair \in PaintedInTiles :
        LET k == pair[1]
            i == pair[2]
            single == SingleDuration(genDescriptor)
            in(d) == 0 <= d /\ d < single
            inside(d) == 0 < d /\ d < single
        IN /\ ~(in(Phase(k, i)) /\ in(WrappedPhase(k, i)))
           /\ DrawsOf(k, i) # <<>>
                 <=> (inside(Phase(k, i)) \/ inside(WrappedPhase(k, i)))
           /\ \A n \in 1 .. Len(DrawsOf(k, i)) :
                 /\ inside(DrawsOf(k, i)[n].time)
                 /\ DrawsOf(k, i)[n].time
                       \in {Phase(k, i), WrappedPhase(k, i)}
           /\ (Phase(k, i) = 0 /\ single < FullDuration(genDescriptor)) =>
                 DrawsOf(k, i) = <<>>

\* A particle that starts after the time of a frame is drawn in it at the
\* wrapped phase, and a particle is at the phase 0 in another frame.
C18_Witness ==
    /\ SaidInvariants(genDescriptor)
    /\ \E pair \in PaintedInTiles :
          /\ Phase(pair[1], pair[2]) < 0
          /\ DrawsOf(pair[1], pair[2]) # <<>>
          /\ DrawsOf(pair[1], pair[2])[1].time = WrappedPhase(pair[1], pair[2])
    /\ \E pair \in PaintedInTiles :
          /\ Phase(pair[1], pair[2]) = 0
          /\ DrawsOf(pair[1], pair[2]) = <<>>

\* The x and y offsets of the draws, from the origin of the particle, in
\* units of the canvas size: <<0, 0>> is the draw at the origin.
Shifts(draws, particle, size) ==
    {<<(particle.x - draws[n].x) \div size, (particle.y - draws[n].y) \div size>> :
        n \in 1 .. Len(draws)}

\* C19: a particle that is drawn is drawn at its origin; once more, one
\* canvas size to the left, exactly when x + spriteSize > canvasSize; once
\* more, one canvas size up, exactly when y + spriteSize > canvasSize; and
\* once more, left and up, exactly when both are: 1, 2 or 4 draws, no two
\* at the same place.
C19_EdgeWrapCopies ==
    \A pair \in PaintedInTiles :
        LET draws == DrawsOf(pair[1], pair[2])
            particle == genParticles[pair[2]]
            size == genDescriptor.canvasSize
            spriteSize == 2 + ((genDescriptor.particleSizeMax + 99) \div 100)
            right == particle.x + spriteSize > size
            bottom == particle.y + spriteSize > size
            shifts == Shifts(draws, particle, size)
        IN draws # <<>> =>
              /\ particle.x \in 0 .. (size - 1)
              /\ particle.y \in 0 .. (size - 1)
              /\ \A n \in 1 .. Len(draws) :
                    /\ draws[n].x \in {particle.x, particle.x - size}
                    /\ draws[n].y \in {particle.y, particle.y - size}
                    /\ draws[n].spriteIndex = particle.spriteIndex
              /\ <<0, 0>> \in shifts
              /\ <<1, 0>> \in shifts <=> right
              /\ <<0, 1>> \in shifts <=> bottom
              /\ <<1, 1>> \in shifts <=> (right /\ bottom)
              /\ Len(draws) = Cardinality(shifts)
              /\ Len(draws) \in {1, 2, 4}

\* On a canvas of 4 with a sprite of 4: a particle at x = 0, y > 0 was
\* drawn twice, at its origin and one canvas size up, and another particle
\* was drawn four times.
C19_Witness ==
    /\ genDescriptor.canvasSize = 4
    /\ \E pair \in PaintedInTiles :
          /\ Len(DrawsOf(pair[1], pair[2])) = 2
          /\ genParticles[pair[2]].y > 0
          /\ genParticles[pair[2]].x = 0
          /\ DrawsOf(pair[1], pair[2])[2].y = genParticles[pair[2]].y - 4
    /\ \E pair \in PaintedInTiles :
          /\ Len(DrawsOf(pair[1], pair[2])) = 4

\* C20: a draw at the phase d of the lifetime has the opacity d / fadeIn
\* while d < fadeIn, (lifetime - d) / fadeOut in the last fadeOut of the
\* lifetime, and 1 between the two; the opacity lies within [0, 1], and
\* no draw is made at a phase outside the lifetime.
C20_OpacityEnvelope ==
    \A pair \in PaintedInTiles :
        \A n \in 1 .. Len(DrawsOf(pair[1], pair[2])) :
            LET draw == DrawsOf(pair[1], pair[2])[n]
                d == draw.time
                fadeIn == genDescriptor.particleFadeInDuration
                fadeOut == genDescriptor.particleFadeOutDuration
                lifetime == fadeIn + genDescriptor.particleShownDuration
                               + fadeOut
            IN /\ 0 <= d /\ d < lifetime
               /\ draw.den > 0
               /\ 0 <= draw.num /\ draw.num <= draw.den
               /\ d < fadeIn => draw.num * fadeIn = d * draw.den
               /\ (d >= fadeIn /\ d > lifetime - fadeOut) =>
                     draw.num * fadeOut = (lifetime - d) * draw.den
               /\ (d >= fadeIn /\ d <= lifetime - fadeOut) =>
                     draw.num = draw.den

\* Draws were made on the fade-in ramp, on the plateau and on the
\* fade-out ramp.
C20_Witness ==
    LET fadeIn == genDescriptor.particleFadeInDuration
        fadeOut == genDescriptor.particleFadeOutDuration
        lifetime == SingleDuration(genDescriptor)
        drawn(low, high) ==
            \E pair \in PaintedInTiles :
                /\ DrawsOf(pair[1], pair[2]) # <<>>
                /\ DrawsOf(pair[1], pair[2])[1].time \in low .. high
    IN /\ SaidInvariants(genDescriptor)
       /\ drawn(1, fadeIn - 1)
       /\ drawn(fadeIn, lifetime - fadeOut)
       /\ drawn(lifetime - fadeOut + 1, lifetime - 1)

\* The intensity at the row-major index i of the PNG in the bytes.
IntensityAt(data, i) ==
    IF i + 6 <= Len(data.payload) THEN data.payload[i + 6]
    ELSE data.payload[5]

\* C21: every pixel of a decoded mask has its four channels equal to the
\* intensity byte decoded for it, and serializing the decoded mask gives
\* back the same intensity bytes, for every intensity from 0 to 255.
C21_PackingRoundTrip ==
    /\ packPc \in {"decoded", "encoded"} =>
          /\ packImage.ok
          /\ \A i \in 0 .. (packImage.image.width * packImage.image.height - 1) :
                LET pixel == PixelAt(packImage.image, i)
                    byte == IntensityAt(packData, i)
                IN /\ byte \in Intensities
                   /\ pixel[1] = byte
                   /\ pixel[2] = byte
                   /\ pixel[3] = byte
                   /\ pixel[4] = byte
    /\ packPc = "encoded" =>
          /\ packBack.payload = packData.payload
          /\ packBack = packData

\* A mask of the two intensities 0 and 255 has been decoded and
\* serialized again.
C21_Witness ==
    /\ packPc = "encoded"
    /\ IntensityAt(packData, 0) = 0
    /\ IntensityAt(packData, 1) = 255
    /\ packImage.image.width = 2

\* The fraction <<num, den>> equals the whole number `value`.
FracIs(fraction, value) == fraction[1] = value * fraction[2]

\* a <= b for two fractions with positive divisors.
FracLeq(a, b) == a[1] * b[2] <= b[1] * a[2]

\* The sprites of a valid descriptor, generated so far.
SpritesSoFar ==
    IF genPc \in {"sprites", "paint", "done"} /\ genDescriptor \in ValidDescriptors
    THEN genSprites ELSE <<>>

\* No division of GenerateSprite had a zero divisor.
NoZeroDivisor ==
    \A i \in 1 .. Len(SpritesSoFar) :
        SpritesSoFar[i].width[2] > 0 /\ SpritesSoFar[i].height[2] > 0

\* C22 as stated: the sprite at the middle index has the maximum size, no
\* sprite is wider or higher than it, and no division has a zero divisor.
C22_MiddleIsLargest ==
    /\ NoZeroDivisor
    /\ \A i \in 1 .. Len(SpritesSoFar) :
          LET count == genDescriptor.particleSpritesCount
              middle == count \div 2
              max == genDescriptor.particleSizeMax
              sprite == SpritesSoFar[i]
          IN /\ sprite.index = middle =>
                   FracIs(sprite.width, max) /\ FracIs(sprite.height, max)
             /\ Len(SpritesSoFar) > middle =>
                   /\ FracLeq(sprite.width, SpritesSoFar[middle + 1].width)
                   /\ FracLeq(sprite.height, SpritesSoFar[middle + 1].height)

\* C22, corrected: the sprite at the middle index is the smallest,
\* particleSizeMin wide and high; the width is particleSizeMax at index 0
\* when the middle is after it, falls by equal steps to particleSizeMin at
\* the middle and stays there; the height is particleSizeMin up to the
\* middle, then rises by equal steps to particleSizeMax at the last index;
\* no division has a zero divisor, for every count of variants >= 1.
C22_MiddleIsSmallest ==
    /\ NoZeroDivisor
    /\ \A i \in 1 .. Len(SpritesSoFar) :
          LET count == genDescriptor.particleSpritesCount
              middle == count \div 2
              min == genDescriptor.particleSizeMin
              max == genDescriptor.particleSizeMax
              sprite == SpritesSoFar[i]
          IN /\ sprite.index = i - 1
             /\ FracLeq(<<min, 1>>, sprite.width)
             /\ FracLeq(sprite.width, <<max, 1>>)
             /\ FracLeq(<<min, 1>>, sprite.height)
             /\ FracLeq(sprite.height, <<max, 1>>)
             /\ sprite.index >= middle => FracIs(sprite.width, min)
             /\ sprite.index <= middle => FracIs(sprite.height, min)
             /\ (sprite.index = 0 /\ middle > 0) => FracIs(sprite.width, max)
             /\ (sprite.index = count - 1 /\ sprite.index > middle) =>
                   FracIs(sprite.height, max)
             /\ (i > 1 /\ sprite.index <= middle) =>
                   /\ SpritesSoFar[i - 1].width[2] = middle
                   /\ (SpritesSoFar[i - 1].width[1]
                         - (IF sprite.index = middle THEN min * middle
                            ELSE sprite.width[1]))
                        = max - min
             /\ (i > 1 /\ sprite.index > middle) =>
                   /\ sprite.height[2] = count - 1 - middle
                   /\ (sprite.height[1]
                         - (IF sprite.index = middle + 1
                            THEN min * (count - 1 - middle)
                            ELSE SpritesSoFar[i - 1].height[1]))
                        = max - min

\* Five sprites of sizes between 1.5 and 2 pixels have been generated.
C22_Witness ==
    /\ genPc = "done"
    /\ genDescriptor \in ValidDescriptors
    /\ genDescriptor.particleSpritesCount = 5
    /\ Len(genSprites) = 5
    /\ genDescriptor.particleSizeMin < genDescriptor.particleSizeMax
    /\ FracIs(genSprites[1].width, genDescriptor.particleSizeMax)
    /\ FracIs(genSprites[3].width, genDescriptor.particleSizeMin)
    /\ FracIs(genSprites[3].height, genDescriptor.particleSizeMin)
    /\ FracIs(genSprites[5].height, genDescriptor.particleSizeMax)

\* C23: a WriteDefaultMask call that rejects its bytes because they are
\* larger than kMaxCacheSize leaves the cache file as it was.
C23_RejectionKeepsFile ==
    [][(/\ cacheIo'.op = "write"
        /\ Size(cacheIo'.bytes) > kMaxCacheSize
        /\ ~cacheIo'.wrote)
          => cacheFile' = cacheFile]_vars

\* Every object made from another one has that object's three parameters
\* and pixels that no other object has.
OwnAtlas ==
    \A i \in 2 .. Len(copyObjects) :
        LET copy == copyObjects[i]
            source == copyObjects[copy.from]
        IN /\ copy.from \in 1 .. (i - 1)
           /\ copy.framesCount = source.framesCount
           /\ copy.frameDuration = source.frameDuration
           /\ copy.canvasSize = source.canvasSize
           /\ copy.image \in 1 .. Len(copyImages)
           /\ \A j \in 1 .. Len(copyObjects) :
                 j # i => copyObjects[j].image # copy.image

\* A step leaves every object that exists, and its pixels, as they were.
KeepsObjects ==
    \A i \in 1 .. Len(copyObjects) :
        /\ i <= Len(copyObjects')
        /\ copyObjects'[i] = copyObjects[i]
        /\ copyImages'[copyObjects[i].image] = copyImages[copyObjects[i].image]

\* C24: a copy made from an asset has the asset's frame count, frame
\* duration and canvas size and an atlas of its own; the construction of
\* the copy and every later use of it leave the atlas and the parameters
\* of the original (and of every other object) unchanged.
C24_CopyIsIndependent == []OwnAtlas /\ [][KeepsObjects]_vars

\* A recolored copy whose pixels differ from the published ones has been
\* made next to the darkened copy, and one of the copies has been
\* serialized.
C24_Witness ==
    /\ Len(copyObjects) = 3
    /\ \E i \in 2 .. 3 :
          /\ copyObjects[i].origin = "recolor"
          /\ copyObjects[i].from = 1
          /\ copyImages[copyObjects[i].image] # copyImages[1]
    /\ \E i \in 2 .. 3 : copyObjects[i].origin = "darken"
    /\ copyUsed.op = "serialize"
    /\ copyObjects[1].framesCount = 2
    /\ copyImages[1].dots # <<>>

\* C25: whenever the handler of the radial show progress stops, restarts
\* or reads the radial animation, the pointer to it is not null.
C25_RadialNeverNull ==
    \A i \in 1 .. Len(button.uses) : button.uses[i]

\* C26: every type switch first sets the mouse state to Disabled and then
\* at once to the target when that is Disabled or Blocked; Enabled is set
\* only by the tick that gives the final value; the button is never
\* Enabled while the switch animation runs, and when it has ended the
\* mouse state is HandleMouseStateFromType of the current type.
C26_MouseHandling ==
    LET target == HandleMouseStateFromType(button.type)
    IN /\ button.step \in {"init", "setState"} =>
             /\ button.animating
             /\ button.sets = (IF target = "Enabled" THEN <<"Disabled">>
                               ELSE <<"Disabled", target>>)
             /\ button.handleMouseState =
                   (IF target = "Enabled" THEN "Disabled" ELSE target)
       /\ button.step = "tick" =>
             /\ (button.sets # <<>>) =>
                   /\ button.sets = <<target>>
                   /\ ~button.animating
                   /\ button.value = Percent
             /\ (button.sets = <<>> /\ ~button.crashed) => button.animating
       /\ button.animating => button.handleMouseState # "Enabled"
       /\ ~button.animating => button.handleMouseState = target

\* A switch from ForceMuted to Active has ended, with animations enabled,
\* by the tick that set Enabled.
C26_Witness ==
    /\ button.step = "tick"
    /\ button.type = "Active"
    /\ button.previous = "ForceMuted"
    /\ ~button.animating
    /\ button.sets = <<"Enabled">>
    /\ button.handleMouseState = "Enabled"
    /\ ~animDisabled

=============================================================================
